---- MODULE Spec2Model ----
(***************************************************************************)
(* State-machine model of the webhook normalisation service:               *)
(*   adapters (Z-API, Meta) + AdapterRegistry + ProcessWebhookUseCase +    *)
(*   ClassifyMessageUseCase + PrismaMessageRepository + ClaudeService +    *)
(*   the POST /webhook/:provider and GET /webhook/meta routes and the      *)
(*   error handler.                                                        *)
(* Every await of the TypeScript code is an interleaving point: one action *)
(* per database operation / classifier call of a request.                  *)
(***************************************************************************)
EXTENDS Integers, Sequences, FiniteSets, TLC

(***************************************************************************)
(* Bounds of the model.                                                    *)
(***************************************************************************)
MaxReq == 3        \* requests (POST webhook or classify-by-id) per behaviour
MaxDbFaults == 1   \* database operations that fail for an external reason
MaxRegistryReq == 2 \* requests per behaviour while the registry is being populated
MaxBoundaryReq == 2 \* calls per behaviour at the registry and HTTP boundary

(***************************************************************************)
(* JSON values (the `unknown` request body).  Strings that the code scans  *)
(* character by character (phone, Meta timestamp) are sequences of         *)
(* one-character strings; the others are TLA+ strings.                     *)
(***************************************************************************)
Undefined == [t |-> "undefined"]
JNull == [t |-> "null"]
JStr(s) == [t |-> "string", v |-> s]
JNum(n) == [t |-> "number", v |-> n]
JBool(b) == [t |-> "boolean", v |-> b]
JObj(f) == [t |-> "object", v |-> f]
JArr(a) == [t |-> "array", v |-> a]

\* obj[key] of JavaScript: undefined when the key is absent
Get(obj, key) == IF key \in DOMAIN obj.v THEN obj.v[key] ELSE Undefined

\* JavaScript truthiness of a string-or-undefined value
Truthy(val) == val.t = "string" /\ Len(val.v) > 0

(***************************************************************************)
(* Zod schemas as data, and Zod's safeParse as the list of issues.         *)
(***************************************************************************)
ZString(min) == [k |-> "string", min |-> min]
ZNumber == [k |-> "number"]
ZBoolean == [k |-> "boolean"]
ZLiteral(s) == [k |-> "literal", value |-> s]
ZOptional(inner) == [k |-> "optional", inner |-> inner]
ZNullable(inner) == [k |-> "nullable", inner |-> inner]
ZObject(shape) == [k |-> "object", shape |-> shape]
ZArray(elem, min) == [k |-> "array", elem |-> elem, min |-> min]
Key(name, schema) == [key |-> name, schema |-> schema]

IndexName == <<"0", "1", "2", "3">>

Issue(path, message) == [path |-> path, message |-> message]

TypeIssue(expected, val, path) ==
    << Issue(path, IF val.t = "undefined"
                   THEN "Required"
                   ELSE "Expected " \o expected \o ", received " \o val.t) >>

RECURSIVE ZodIssues(_, _, _)
RECURSIVE ShapeIssues(_, _, _, _)
RECURSIVE ElementIssues(_, _, _, _)

\* ZodType.safeParse(val).error.issues, in Zod's reporting order
ZodIssues(schema, val, path) ==
    CASE schema.k = "optional" ->
            IF val.t = "undefined" THEN << >> ELSE ZodIssues(schema.inner, val, path)
      [] schema.k = "nullable" ->
            IF val.t = "null" THEN << >> ELSE ZodIssues(schema.inner, val, path)
      [] schema.k = "string" ->
            IF val.t # "string" THEN TypeIssue("string", val, path)
            ELSE IF Len(val.v) < schema.min
                 THEN << Issue(path, "String must contain at least 1 character(s)") >>
                 ELSE << >>
      [] schema.k = "number" ->
            IF val.t # "number" THEN TypeIssue("number", val, path) ELSE << >>
      [] schema.k = "boolean" ->
            IF val.t # "boolean" THEN TypeIssue("boolean", val, path) ELSE << >>
      [] schema.k = "literal" ->
            IF val.t = "string" /\ val.v = schema.value THEN << >>
            ELSE << Issue(path, "Invalid literal value, expected " \o schema.value) >>
      [] schema.k = "object" ->
            IF val.t # "object" THEN TypeIssue("object", val, path)
            ELSE ShapeIssues(schema.shape, 1, val, path)
      [] schema.k = "array" ->
            IF val.t # "array" THEN TypeIssue("array", val, path)
            ELSE (IF Len(val.v) < schema.min
                  THEN << Issue(path, "Array must contain at least 1 element(s)") >>
                  ELSE << >>)
                 \o ElementIssues(schema.elem, 1, val, path)

ShapeIssues(shape, i, val, path) ==
    IF i > Len(shape) THEN << >>
    ELSE ZodIssues(shape[i].schema, Get(val, shape[i].key), Append(path, shape[i].key))
         \o ShapeIssues(shape, i + 1, val, path)

ElementIssues(elem, i, val, path) ==
    IF i > Len(val.v) THEN << >>
    ELSE ZodIssues(elem, val.v[i], Append(path, IndexName[i]))
         \o ElementIssues(elem, i + 1, val, path)

(***************************************************************************)
(* The provider schemas.                                                   *)
(***************************************************************************)
ZApiTextSchema == ZObject(<< Key("message", ZString(1)) >>)

ZApiImageSchema ==
    ZObject(<< Key("imageUrl", ZString(0)),
               Key("thumbnailUrl", ZOptional(ZString(0))),
               Key("caption", ZOptional(ZString(0))),
               Key("mimeType", ZOptional(ZString(0))),
               Key("viewOnce", ZOptional(ZBoolean)),
               Key("width", ZOptional(ZNumber)),
               Key("height", ZOptional(ZNumber)) >>)

ZApiWebhookSchema ==
    ZObject(<< Key("instanceId", ZString(1)),
               Key("messageId", ZString(1)),
               Key("phone", ZString(1)),
               Key("fromMe", ZBoolean),
               Key("momment", ZNumber),
               Key("status", ZString(0)),
               Key("chatName", ZString(0)),
               Key("senderName", ZString(0)),
               Key("senderPhoto", ZOptional(ZNullable(ZString(0)))),
               Key("participantPhone", ZOptional(ZNullable(ZString(0)))),
               Key("photo", ZOptional(ZNullable(ZString(0)))),
               Key("broadcast", ZOptional(ZBoolean)),
               Key("type", ZLiteral("ReceivedCallback")),
               Key("text", ZOptional(ZApiTextSchema)),
               Key("image", ZOptional(ZApiImageSchema)) >>)

\* a text schema that accepts the empty body
MetaTextSchemaAnyLength == ZObject(<< Key("body", ZString(0)) >>)

MetaTextSchema == ZObject(<< Key("body", ZString(1)) >>)

MetaMessageSchema ==
    ZObject(<< Key("from", ZString(1)),
               Key("id", ZString(1)),
               Key("timestamp", ZString(0)),
               Key("type", ZLiteral("text")),
               Key("text", MetaTextSchema) >>)

MetaContactSchema ==
    ZObject(<< Key("profile", ZObject(<< Key("name", ZString(0)) >>)),
               Key("wa_id", ZString(0)) >>)

MetaMetadataSchema ==
    ZObject(<< Key("display_phone_number", ZString(0)),
               Key("phone_number_id", ZString(0)) >>)

MetaValueSchema ==
    ZObject(<< Key("messaging_product", ZLiteral("whatsapp")),
               Key("metadata", MetaMetadataSchema),
               Key("contacts", ZArray(MetaContactSchema, 1)),
               Key("messages", ZArray(MetaMessageSchema, 1)) >>)

MetaChangeSchema ==
    ZObject(<< Key("value", MetaValueSchema),
               Key("field", ZLiteral("messages")) >>)

MetaEntrySchema ==
    ZObject(<< Key("id", ZString(0)),
               Key("changes", ZArray(MetaChangeSchema, 1)) >>)

MetaWebhookSchema ==
    ZObject(<< Key("object", ZLiteral("whatsapp_business_account")),
               Key("entry", ZArray(MetaEntrySchema, 1)) >>)

(***************************************************************************)
(* Results of calls that may throw.                                        *)
(***************************************************************************)
Ok(v) == [ok |-> TRUE, value |-> v]
Throw(e) == [ok |-> FALSE, error |-> e]

(***************************************************************************)
(* Error taxonomy (WebhookErrors.ts) and errors of the collaborators.      *)
(***************************************************************************)
PlainError(message) == [name |-> "Error", message |-> message]

WebhookValidationError(provider, issues) ==
    [name |-> "WebhookValidationError", statusCode |-> 400,
     code |-> "VALIDATION_ERROR", provider |-> provider, issues |-> issues]

UnknownProviderError(receivedProvider) ==
    [name |-> "UnknownProviderError", statusCode |-> 400,
     code |-> "UNKNOWN_PROVIDER", receivedProvider |-> receivedProvider]

AdapterNotFoundError(provider) ==
    [name |-> "AdapterNotFoundError", statusCode |-> 501,
     code |-> "PROVIDER_NOT_IMPLEMENTED", provider |-> provider]

\* a ProcessingError that hands on an inner ProcessingError instead of wrapping it
ProcessingErrorRethrown(step, originalError) ==
    IF originalError.name = "ProcessingError" THEN originalError
    ELSE [name |-> "ProcessingError", statusCode |-> 500,
          code |-> "PROCESSING_ERROR", step |-> step, originalError |-> originalError]

ProcessingError(step, originalError) ==
    [name |-> "ProcessingError", statusCode |-> 500,
     code |-> "PROCESSING_ERROR", step |-> step, originalError |-> originalError]

DuplicateMessageError(provider, externalId) ==
    [name |-> "DuplicateMessageError", statusCode |-> 200,
     code |-> "DUPLICATE_MESSAGE", provider |-> provider, externalId |-> externalId]

WebhookErrorNames ==
    {"WebhookValidationError", "UnknownProviderError", "AdapterNotFoundError",
     "ProcessingError", "DuplicateMessageError"}

\* err instanceof WebhookError
IsWebhookError(e) == e.name \in WebhookErrorNames

RECURSIVE JoinPath(_)
\* issue.path.join('.')
JoinPath(path) ==
    IF Len(path) = 0 THEN ""
    ELSE IF Len(path) = 1 THEN path[1]
    ELSE path[1] \o "." \o JoinPath(Tail(path))

\* getDetails reporting the first issue only
GetDetailsFirstOnly(e) ==
    [i \in 1..1 |->
        [path |-> JoinPath(e.issues[i].path), message |-> e.issues[i].message]]

\* WebhookValidationError.getDetails
GetDetails(e) ==
    [i \in 1..Len(e.issues) |->
        [path |-> JoinPath(e.issues[i].path), message |-> e.issues[i].message]]

\* errors raised by the Prisma client
PrismaUniqueViolation == [name |-> "PrismaClientKnownRequestError", code |-> "P2002"]
PrismaInvalidValue == [name |-> "PrismaClientValidationError"]
PrismaUnavailable == [name |-> "PrismaClientInitializationError"]

(***************************************************************************)
(* Adapters.                                                               *)
(***************************************************************************)
DigitChars == <<"0", "1", "2", "3", "4", "5", "6", "7", "8", "9">>

Digits == {DigitChars[i] : i \in 1..Len(DigitChars)}

DigitValue(c) == CHOOSE n \in 0..9 : DigitChars[n + 1] = c

RECURSIVE NormalizePhoneKeepPlus(_)
\* a normalizePhone that keeps the leading plus sign: phone.replace(/[^\d+]/g, '')
NormalizePhoneKeepPlus(phone) ==
    IF Len(phone) = 0 THEN << >>
    ELSE (IF Head(phone) \in Digits \cup {"+"} THEN << Head(phone) >> ELSE << >>)
         \o NormalizePhoneKeepPlus(Tail(phone))

RECURSIVE NormalizePhone(_)
\* phone.replace(/\D/g, '')
NormalizePhone(phone) ==
    IF Len(phone) = 0 THEN << >>
    ELSE (IF Head(phone) \in Digits THEN << Head(phone) >> ELSE << >>)
         \o NormalizePhone(Tail(phone))

RECURSIVE ParseDigits(_, _)
ParseDigits(s, acc) ==
    IF Len(s) = 0 \/ Head(s) \notin Digits THEN acc
    ELSE ParseDigits(Tail(s), acc * 10 + DigitValue(Head(s)))

\* new Date(ms): a valid date carries its epoch milliseconds
ValidDate(ms) == [valid |-> TRUE, ms |-> ms]
InvalidDate == [valid |-> FALSE]

\* new Date(parseInt(s) * 1000): parseInt reads the leading digits, NaN without any
DateFromSeconds(s) ==
    IF Len(s) = 0 \/ Head(s) \notin Digits THEN InvalidDate
    ELSE ValidDate(ParseDigits(s, 0) * 1000)

\* extractContent taking the caption whenever the image has one, empty or not
ExtractContentCaptionUnchecked(payload) ==
    LET text == Get(payload, "text")
        image == Get(payload, "image")
    IN  IF text.t = "object" /\ Truthy(Get(text, "message"))
        THEN Get(text, "message").v
        ELSE IF image.t = "object" /\ Get(image, "caption").t = "string"
        THEN Get(image, "caption").v
        ELSE IF image.t = "object"
        THEN "[Imagem recebida]"
        ELSE "[Midia recebida]"

\* ZApiAdapter.extractContent
ExtractContent(payload) ==
    LET text == Get(payload, "text")
        image == Get(payload, "image")
    IN  IF text.t = "object" /\ Truthy(Get(text, "message"))
        THEN Get(text, "message").v
        ELSE IF image.t = "object" /\ Truthy(Get(image, "caption"))
        THEN Get(image, "caption").v
        ELSE IF image.t = "object"
        THEN "[Imagem recebida]"
        ELSE "[Midia recebida]"

\* ZApiAdapter.validate
ZApiValidate(payload) ==
    LET issues == ZodIssues(ZApiWebhookSchema, payload, << >>)
    IN  IF Len(issues) > 0 THEN Throw(WebhookValidationError("zapi", issues))
        ELSE Ok(payload)

\* normalize that prefers the chat name to the sender name
ZApiNormalizeChatNameFirst(payload) ==
    Ok([externalId |-> Get(payload, "messageId").v,
        provider |-> "zapi",
        contact |-> [phone |-> NormalizePhone(Get(payload, "phone").v),
                     name |-> IF Truthy(Get(payload, "chatName"))
                              THEN Get(payload, "chatName").v
                              ELSE Get(payload, "senderName").v],
        message |-> [type |-> "text", content |-> ExtractContent(payload)],
        timestamp |-> ValidDate(Get(payload, "momment").v),
        isFromMe |-> Get(payload, "fromMe").v])

\* ZApiAdapter.normalize
ZApiNormalize(payload) ==
    Ok([externalId |-> Get(payload, "messageId").v,
        provider |-> "zapi",
        contact |-> [phone |-> NormalizePhone(Get(payload, "phone").v),
                     name |-> IF Truthy(Get(payload, "senderName"))
                              THEN Get(payload, "senderName").v
                              ELSE Get(payload, "chatName").v],
        message |-> [type |-> "text", content |-> ExtractContent(payload)],
        timestamp |-> ValidDate(Get(payload, "momment").v),
        isFromMe |-> Get(payload, "fromMe").v])

\* MetaAdapter.validate
MetaValidate(payload) ==
    LET issues == ZodIssues(MetaWebhookSchema, payload, << >>)
    IN  IF Len(issues) > 0 THEN Throw(WebhookValidationError("meta", issues))
        ELSE Ok(payload)

\* array[0] of JavaScript
First(arr) == IF Len(arr.v) > 0 THEN arr.v[1] ELSE Undefined

\* MetaAdapter.normalize
MetaNormalize(payload) ==
    LET entry == First(Get(payload, "entry")) IN
    IF entry.t = "undefined" THEN Throw(PlainError("Payload Meta sem entry")) ELSE
    LET change == First(Get(entry, "changes")) IN
    IF change.t = "undefined" THEN Throw(PlainError("Payload Meta sem changes")) ELSE
    LET value == Get(change, "value")
        message == First(Get(value, "messages"))
        contact == First(Get(value, "contacts"))
    IN
    IF message.t = "undefined" THEN Throw(PlainError("Payload Meta sem messages")) ELSE
    IF contact.t = "undefined" THEN Throw(PlainError("Payload Meta sem contacts")) ELSE
    Ok([externalId |-> Get(message, "id").v,
        provider |-> "meta",
        contact |-> [phone |-> NormalizePhone(Get(message, "from").v),
                     name |-> Get(Get(contact, "profile"), "name").v],
        message |-> [type |-> "text", content |-> Get(Get(message, "text"), "body").v],
        timestamp |-> DateFromSeconds(Get(message, "timestamp").v),
        isFromMe |-> FALSE])

(***************************************************************************)
(* Adapter instances.  register accepts every implementation of the        *)
(* WebhookAdapter interface; besides the two shipped adapters the model    *)
(* has one more implementation, whose validate accepts the payload and     *)
(* whose normalize throws.                                                 *)
(***************************************************************************)
ZApiAdapter == [provider |-> "zapi", impl |-> "ZApiAdapter"]
MetaAdapter == [provider |-> "meta", impl |-> "MetaAdapter"]
ThrowingAdapter == [provider |-> "meta", impl |-> "ThrowingAdapter"]
Adapters == {ZApiAdapter, MetaAdapter, ThrowingAdapter}

\* adapter.validate(payload)
Validate(adapter, payload) ==
    CASE adapter.impl = "ZApiAdapter" -> ZApiValidate(payload)
      [] adapter.impl = "MetaAdapter" -> MetaValidate(payload)
      [] OTHER -> Ok(payload)

\* adapter.normalize(validatedPayload)
Normalize(adapter, payload) ==
    CASE adapter.impl = "ZApiAdapter" -> ZApiNormalize(payload)
      [] adapter.impl = "MetaAdapter" -> MetaNormalize(payload)
      [] OTHER -> Throw(PlainError("normalize failed"))

\* ZApiAdapter.canHandle
ZApiCanHandle(payload) ==
    /\ payload.t = "object"
    /\ Get(payload, "type") = JStr("ReceivedCallback")
    /\ Get(payload, "instanceId").t = "string"
    /\ Get(payload, "messageId").t = "string"

\* MetaAdapter.canHandle
MetaCanHandle(payload) ==
    /\ payload.t = "object"
    /\ Get(payload, "object") = JStr("whatsapp_business_account")

\* adapter.canHandle(payload); the third implementation accepts what it validates
CanHandle(adapter, payload) ==
    CASE adapter.impl = "ZApiAdapter" -> ZApiCanHandle(payload)
      [] adapter.impl = "MetaAdapter" -> MetaCanHandle(payload)
      [] OTHER -> TRUE

(***************************************************************************)
(* ClaudeService: the classifier.  The answer of the LLM API is an input:  *)
(* the call fails, the answer has no text block, the text holds no JSON    *)
(* object, or it holds one.  Confidence is counted in hundredths.          *)
(***************************************************************************)
LlmApiError == [t |-> "api_error"]
LlmNoText == [t |-> "no_text"]
LlmText(json) == [t |-> "text", json |-> json]
LlmAnswer(intent, confidence) ==
    LlmText(JObj([intent |-> intent, confidence |-> confidence]))

ValidIntents ==
    {"interesse_produto", "duvida_produto", "suporte_tecnico", "reclamacao",
     "saudacao", "outro"}

AnthropicApiError == [name |-> "APIError"]

\* parseClassificationResponse without the coercion of unknown intents
ParseWithoutCoercion(json) ==
    LET Fail(message) == Throw(ProcessingError("parse_classification", PlainError(message)))
    IN  IF json.t # "object" THEN Fail("Resposta nao contem JSON valido")
        ELSE IF Get(json, "intent").t # "string"
        THEN Fail("Campo intent ausente ou invalido")
        ELSE IF Get(json, "confidence").t # "number"
        THEN Fail("Campo confidence ausente ou invalido")
        ELSE IF Get(json, "confidence").v < 0 \/ Get(json, "confidence").v > 100
        THEN Fail("Campo confidence deve estar entre 0 e 1")
        ELSE Ok([intent |-> Get(json, "intent").v,
                 confidence |-> Get(json, "confidence").v])

\* parseClassificationResponse without the range check on confidence
ParseWithoutRangeCheck(json) ==
    LET Fail(message) == Throw(ProcessingError("parse_classification", PlainError(message)))
    IN  IF json.t # "object" THEN Fail("Resposta nao contem JSON valido")
        ELSE IF Get(json, "intent").t # "string"
        THEN Fail("Campo intent ausente ou invalido")
        ELSE IF Get(json, "confidence").t # "number"
        THEN Fail("Campo confidence ausente ou invalido")
        ELSE Ok([intent |-> IF Get(json, "intent").v \in ValidIntents
                            THEN Get(json, "intent").v
                            ELSE "outro",
                 confidence |-> Get(json, "confidence").v])

\* ClaudeService.parseClassificationResponse
ParseClassificationResponse(json) ==
    LET Fail(message) == Throw(ProcessingError("parse_classification", PlainError(message)))
    IN  IF json.t # "object" THEN Fail("Resposta nao contem JSON valido")
        ELSE IF Get(json, "intent").t # "string"
        THEN Fail("Campo intent ausente ou invalido")
        ELSE IF Get(json, "confidence").t # "number"
        THEN Fail("Campo confidence ausente ou invalido")
        ELSE IF Get(json, "confidence").v < 0 \/ Get(json, "confidence").v > 100
        THEN Fail("Campo confidence deve estar entre 0 e 1")
        ELSE Ok([intent |-> IF Get(json, "intent").v \in ValidIntents
                            THEN Get(json, "intent").v
                            ELSE "outro",
                 confidence |-> Get(json, "confidence").v])

\* ClaudeService.classify
Classify(llm) ==
    CASE llm.t = "api_error" -> Throw(ProcessingError("classify_llm", AnthropicApiError))
      [] llm.t = "no_text" ->
            Throw(ProcessingError("classify_llm",
                                  PlainError("Resposta do Claude nao contem texto")))
      [] OTHER -> ParseClassificationResponse(llm.json)

\* classifyContent letting the classifier's error through as it is
ClassifyContentUnwrapped(llm) == Classify(llm)

\* ClassifyMessageUseCase.classifyContent
ClassifyContent(llm) ==
    LET r == Classify(llm)
    IN  IF r.ok THEN r ELSE Throw(ProcessingError("classify_content", r.error))

(***************************************************************************)
(* PrismaMessageRepository over the Message table.  The table is a         *)
(* sequence of rows; the id of a row is its index (ids are unique, as the  *)
(* generated UUIDs are).  A nullable column holds a set of at most one     *)
(* value.                                                                  *)
(***************************************************************************)
\* a Message table without the unique constraint
NoUniqueConstraint(table, provider, externalId) == FALSE

\* @@unique([provider, externalId]) of the Message table
UniqueViolation(table, provider, externalId) ==
    \E i \in 1..Len(table) :
        table[i].provider = provider /\ table[i].externalId = externalId

\* prisma.message.create
PrismaCreate(table, data, fault) ==
    IF ~data.timestamp.valid THEN [table |-> table, result |-> Throw(PrismaInvalidValue)]
    ELSE IF fault THEN [table |-> table, result |-> Throw(PrismaUnavailable)]
    ELSE IF UniqueViolation(table, data.provider, data.externalId)
    THEN [table |-> table, result |-> Throw(PrismaUniqueViolation)]
    ELSE LET row == [id |-> Len(table) + 1,
                     externalId |-> data.externalId,
                     provider |-> data.provider,
                     contactPhone |-> data.contactPhone,
                     contactName |-> data.contactName,
                     messageType |-> data.messageType,
                     messageContent |-> data.messageContent,
                     timestamp |-> data.timestamp,
                     receivedAt |-> Len(table) + 1,
                     isFromMe |-> data.isFromMe,
                     intent |-> {},
                     intentConfidence |-> {}]
         IN  [table |-> Append(table, row), result |-> Ok(row)]

\* an update whose failure comes after the row was written
PrismaUpdateFailsAfterWrite(table, id, data, fault) ==
    IF id \notin 1..Len(table)
    THEN [table |-> table,
          result |-> Throw([name |-> "PrismaClientKnownRequestError", code |-> "P2025"])]
    ELSE LET row == [table[id] EXCEPT !.intent = {data.intent},
                                      !.intentConfidence = {data.intentConfidence}]
         IN  [table |-> [table EXCEPT ![id] = row],
              result |-> IF fault THEN Throw(PrismaUnavailable) ELSE Ok(row)]

\* an update that reports the new row and leaves the table as it was
PrismaUpdateNotWritten(table, id, data, fault) ==
    IF fault THEN [table |-> table, result |-> Throw(PrismaUnavailable)]
    ELSE IF id \notin 1..Len(table)
    THEN [table |-> table,
          result |-> Throw([name |-> "PrismaClientKnownRequestError", code |-> "P2025"])]
    ELSE LET row == [table[id] EXCEPT !.intent = {data.intent},
                                      !.intentConfidence = {data.intentConfidence}]
         IN  [table |-> table, result |-> Ok(row)]

\* prisma.message.update({ where: { id }, data })
PrismaUpdate(table, id, data, fault) ==
    IF fault THEN [table |-> table, result |-> Throw(PrismaUnavailable)]
    ELSE IF id \notin 1..Len(table)
    THEN [table |-> table,
          result |-> Throw([name |-> "PrismaClientKnownRequestError", code |-> "P2025"])]
    ELSE LET row == [table[id] EXCEPT !.intent = {data.intent},
                                      !.intentConfidence = {data.intentConfidence}]
         IN  [table |-> [table EXCEPT ![id] = row], result |-> Ok(row)]

\* PrismaMessageRepository.mapToEntity; classification is a set of at most one value
MapToEntity(record) ==
    [id |-> record.id,
     externalId |-> record.externalId,
     provider |-> record.provider,
     contact |-> [phone |-> record.contactPhone, name |-> record.contactName],
     message |-> [type |-> record.messageType, content |-> record.messageContent],
     timestamp |-> record.timestamp,
     receivedAt |-> record.receivedAt,
     isFromMe |-> record.isFromMe,
     classification |->
        IF /\ record.intent # {}
           /\ record.intent # {""}
           /\ record.intentConfidence # {}
        THEN {[intent |-> i, confidence |-> c] :
                  i \in record.intent, c \in record.intentConfidence}
        ELSE {}]

\* PrismaMessageRepository.save
RepoSave(table, message, fault) ==
    LET created == PrismaCreate(table,
                       [externalId |-> message.externalId,
                        provider |-> message.provider,
                        contactPhone |-> message.contact.phone,
                        contactName |-> message.contact.name,
                        messageType |-> message.message.type,
                        messageContent |-> message.message.content,
                        timestamp |-> message.timestamp,
                        isFromMe |-> message.isFromMe],
                       fault)
    IN  [table |-> created.table,
         result |-> IF created.result.ok
                    THEN Ok(MapToEntity(created.result.value))
                    ELSE Throw(ProcessingError("save_message", created.result.error))]

\* findById answering with the oldest row when the id is unknown
RepoFindByIdOrFirst(table, id) ==
    IF id \in 1..Len(table) THEN {MapToEntity(table[id])}
    ELSE {MapToEntity(table[i]) : i \in {j \in 1..Len(table) : j = 1}}

\* PrismaMessageRepository.findById: a set of at most one entity (empty: null)
RepoFindById(table, id) ==
    {MapToEntity(table[i]) : i \in {j \in 1..Len(table) : table[j].id = id}}

\* findByExternalId looking the message up by its external id alone
RepoFindByExternalIdAnyProvider(table, provider, externalId) ==
    {MapToEntity(table[i]) :
        i \in {j \in 1..Len(table) : table[j].externalId = externalId}}

\* findByExternalId with its two arguments taken in the wrong order
RepoFindByExternalIdSwapped(table, provider, externalId) ==
    {MapToEntity(table[i]) :
        i \in {j \in 1..Len(table) :
                  table[j].provider = externalId /\ table[j].externalId = provider}}

\* PrismaMessageRepository.findByExternalId
RepoFindByExternalId(table, provider, externalId) ==
    {MapToEntity(table[i]) :
        i \in {j \in 1..Len(table) :
                  table[j].provider = provider /\ table[j].externalId = externalId}}

\* PrismaMessageRepository.updateClassification
RepoUpdateClassification(table, id, classification, fault) ==
    LET updated == PrismaUpdate(table, id,
                       [intent |-> classification.intent,
                        intentConfidence |-> classification.confidence],
                       fault)
    IN  [table |-> updated.table,
         result |-> IF updated.result.ok
                    THEN Ok(MapToEntity(updated.result.value))
                    ELSE Throw(ProcessingError("update_classification",
                                               updated.result.error))]

(***************************************************************************)
(* AdapterRegistry: the Map keeps insertion order; set on a present key    *)
(* replaces the value in place.                                            *)
(***************************************************************************)
HasAdapter(adapters, provider) ==
    \E i \in 1..Len(adapters) : adapters[i].provider = provider

\* register that always adds an entry, also for a provider already present
RegistryRegisterAppend(adapters, adapter) == Append(adapters, adapter)

\* AdapterRegistry.register
RegistryRegister(adapters, adapter) ==
    IF HasAdapter(adapters, adapter.provider)
    THEN [i \in 1..Len(adapters) |->
             IF adapters[i].provider = adapter.provider THEN adapter ELSE adapters[i]]
    ELSE Append(adapters, adapter)

\* getAdapter falling back to the first registered adapter
GetAdapterFallback(adapters, provider) ==
    IF HasAdapter(adapters, provider)
    THEN Ok(adapters[CHOOSE i \in 1..Len(adapters) : adapters[i].provider = provider])
    ELSE IF Len(adapters) > 0 THEN Ok(adapters[1])
    ELSE Throw(AdapterNotFoundError(provider))

\* AdapterRegistry.getAdapter
GetAdapter(adapters, provider) ==
    IF HasAdapter(adapters, provider)
    THEN Ok(adapters[CHOOSE i \in 1..Len(adapters) : adapters[i].provider = provider])
    ELSE Throw(AdapterNotFoundError(provider))

RECURSIVE FindAdapterFrom(_, _, _)
\* the for loop of findAdapterForPayload, from position i of adapters.values()
FindAdapterFrom(adapters, i, payload) ==
    IF i > Len(adapters) THEN {}
    ELSE IF CanHandle(adapters[i], payload) THEN {adapters[i]}
    ELSE FindAdapterFrom(adapters, i + 1, payload)

\* findAdapterForPayload keeping the last adapter that accepts
FindAdapterForPayloadLast(adapters, payload) ==
    LET accepting == {i \in 1..Len(adapters) : CanHandle(adapters[i], payload)}
    IN  {adapters[i] : i \in {j \in accepting : \A k \in accepting : k <= j}}

\* AdapterRegistry.findAdapterForPayload: a set of at most one adapter
\* (empty: undefined)
FindAdapterForPayload(adapters, payload) == FindAdapterFrom(adapters, 1, payload)

\* initializeAdapters, applied to the registry singleton at bootstrap
InitializeAdapters(adapters) ==
    RegistryRegister(RegistryRegister(adapters, ZApiAdapter), MetaAdapter)

(***************************************************************************)
(* HTTP boundary.                                                          *)
(***************************************************************************)
SUPPORTED_PROVIDERS == {"zapi", "meta"}

\* a route that lets every provider token through to the use case
IsValidProviderAny(provider) == TRUE

\* isValidProvider
IsValidProvider(provider) == provider \in SUPPORTED_PROVIDERS

\* an error handler answering every WebhookError with its own status and code,
\* the duplicate signal like the others
ErrorHandlerUniform(err) ==
    IF IsWebhookError(err)
    THEN IF err.name = "WebhookValidationError"
         THEN [status |-> err.statusCode,
               body |-> [error |-> err.code, details |-> GetDetails(err)]]
         ELSE [status |-> err.statusCode, body |-> [error |-> err.code]]
    ELSE [status |-> 500, body |-> [error |-> "INTERNAL_ERROR"]]

\* errorHandler middleware: the response sent for an error
ErrorHandler(err) ==
    IF IsWebhookError(err)
    THEN IF err.name = "DuplicateMessageError"
         THEN [status |-> err.statusCode,
               body |-> [success |-> TRUE, alreadyProcessed |-> TRUE]]
         ELSE IF err.name = "WebhookValidationError"
         THEN [status |-> err.statusCode,
               body |-> [error |-> err.code, details |-> GetDetails(err)]]
         ELSE [status |-> err.statusCode, body |-> [error |-> err.code]]
    ELSE [status |-> 500, body |-> [error |-> "INTERNAL_ERROR"]]

(***************************************************************************)
(* Inputs: provider tokens of the URL, request bodies, LLM answers.        *)
(***************************************************************************)
ProviderTokens == {"zapi", "meta", "twilio"}

ZApiBase ==
    [instanceId |-> JStr("i1"), messageId |-> JStr("m1"),
     phone |-> JStr(<<"+", "5", " ", "1">>), fromMe |-> JBool(FALSE),
     momment |-> JNum(17), status |-> JStr("RECEIVED"), chatName |-> JStr("Chat"),
     senderName |-> JStr("Ana"), type |-> JStr("ReceivedCallback")]

\* a text message
ZApiText == JObj(ZApiBase @@ [text |-> JObj([message |-> JStr("oi")])])

\* the same messageId with every other field different: an image with a caption
ZApiImage ==
    JObj([instanceId |-> JStr("i1"), messageId |-> JStr("m1"),
          phone |-> JStr(<<"5", "2">>), fromMe |-> JBool(TRUE),
          momment |-> JNum(18), status |-> JStr("RECEIVED"), chatName |-> JStr("Grupo"),
          senderName |-> JStr(""), type |-> JStr("ReceivedCallback"),
          image |-> JObj([imageUrl |-> JStr("u"), caption |-> JStr("foto")])])

\* no messageId and an empty text message: two invalid fields
ZApiInvalid ==
    JObj([k \in (DOMAIN ZApiBase) \ {"messageId"} |-> ZApiBase[k]]
         @@ [text |-> JObj([message |-> JStr("")])])

MetaBody(messages) ==
    JObj([object |-> JStr("whatsapp_business_account"),
          entry |-> JArr(<< JObj([id |-> JStr("e1"),
             changes |-> JArr(<< JObj([field |-> JStr("messages"),
                value |-> JObj([messaging_product |-> JStr("whatsapp"),
                   metadata |-> JObj([display_phone_number |-> JStr("1"),
                                      phone_number_id |-> JStr("2")]),
                   contacts |-> JArr(<< JObj([profile |-> JObj([name |-> JStr("Bia")]),
                                             wa_id |-> JStr("3")]) >>),
                   messages |-> JArr(messages)])]) >>)]) >>)])

MetaMessage(timestamp) ==
    JObj([from |-> JStr(<<"5", "5", "-", "3">>), id |-> JStr("m1"),
          timestamp |-> JStr(timestamp), type |-> JStr("text"),
          text |-> JObj([body |-> JStr("ola")])])

\* one text message, same external id as the Z-API samples
MetaText == MetaBody(<< MetaMessage(<<"1", "7">>) >>)

\* a Z-API callback with neither text nor image: no message body
ZApiNoBody == JObj(ZApiBase)

\* a Meta message without its text object: no message body
MetaNoBody ==
    MetaBody(<< JObj([from |-> JStr(<<"5", "5", "-", "3">>), id |-> JStr("m1"),
                      timestamp |-> JStr(<<"1", "7">>), type |-> JStr("text")]) >>)

\* the six fields of scenario A and nothing else; momment counts 10^6 ms
ScenarioA ==
    JObj([messageId |-> JStr("m1"),
          phone |-> JStr(<<"+", "5", "5", " ", "(", "1", "1", ")", " ", "9", "8",
                           "8", "8", "8", "-", "8", "8", "8", "8">>),
          text |-> JObj([message |-> JStr("hello")]),
          momment |-> JNum(1700000), fromMe |-> JBool(FALSE),
          senderName |-> JStr("Ana")])

\* scenario A with the other fields ZApiWebhookSchema requires
ScenarioAComplete ==
    JObj(ScenarioA.v @@ [instanceId |-> JStr("i1"), status |-> JStr("RECEIVED"),
                         chatName |-> JStr("Chat"),
                         type |-> JStr("ReceivedCallback")])

\* an image without a caption
ZApiImageNoCaption == JObj(ZApiBase @@ [image |-> JObj([imageUrl |-> JStr("u")])])

\* an image whose caption is the empty string
ZApiImageEmptyCaption ==
    JObj(ZApiBase @@ [image |-> JObj([imageUrl |-> JStr("u"), caption |-> JStr("")])])

\* a text message that also carries an image with a caption
ZApiTextAndImage ==
    JObj(ZApiBase @@ [text |-> JObj([message |-> JStr("oi")]),
                      image |-> JObj([imageUrl |-> JStr("u"),
                                      caption |-> JStr("foto")])])

\* a Meta message whose text body is the empty string
MetaEmptyBody ==
    MetaBody(<< JObj([from |-> JStr(<<"5", "5", "-", "3">>), id |-> JStr("m1"),
                      timestamp |-> JStr(<<"1", "7">>), type |-> JStr("text"),
                      text |-> JObj([body |-> JStr("")])]) >>)

Payloads == {ZApiText, ZApiImage, ZApiInvalid, MetaText}

\* the same bodies, the two without a message body, scenario A, the images
\* without a usable caption, a text with an image and an empty Meta body
AllPayloads ==
    Payloads \cup {ZApiNoBody, MetaNoBody, ScenarioA, ScenarioAComplete,
                   ZApiImageNoCaption, ZApiImageEmptyCaption, ZApiTextAndImage,
                   MetaEmptyBody}

\* a Z-API text message that also carries the object field of Meta
ZApiMetaHybrid ==
    JObj(ZApiBase @@ [text |-> JObj([message |-> JStr("oi")]),
                      object |-> JStr("whatsapp_business_account")])

\* bodies handed to findAdapterForPayload
ResolvePayloads == AllPayloads \cup {ZApiMetaHybrid, JNull, JStr("x")}

\* query parameters of GET /webhook/meta: absent, or a string
HubModes == {{}, {"subscribe"}, {"unsubscribe"}}

HubTokens == {{}, {"s3cret"}, {"wrong"}}

HubChallenges == {{}, {"c1"}}

\* errors reaching the error handler: one of each class, and two that are not
\* WebhookErrors
HandledErrors ==
    {WebhookValidationError("zapi", ZApiValidate(ZApiInvalid).error.issues),
     UnknownProviderError("twilio"),
     AdapterNotFoundError("meta"),
     ProcessingError("save_message", PrismaUnavailable),
     DuplicateMessageError("zapi", "m1"),
     PlainError("boom"),
     PrismaUnavailable}

\* META_VERIFY_TOKEN is optional: unset, or one of two secrets
MetaVerifyTokens == {{}, {"s3cret"}, {"other"}}

Envs == {[META_VERIFY_TOKEN |-> t] : t \in MetaVerifyTokens}

\* the Meta variables left out, as for the simulation
DefaultEnv == [META_VERIFY_TOKEN |-> {}]

\* two valid answers, an unknown intent, a confidence out of range
LlmResponses ==
    {LlmAnswer(JStr("saudacao"), JNum(95)),
     LlmAnswer(JStr("outro"), JNum(60)),
     LlmAnswer(JStr(""), JNum(60)),
     LlmAnswer(JStr("saudacao"), JNum(150)),
     LlmAnswer(JStr("saudacao"), JNum(-5))}

(***************************************************************************)
(* State.                                                                  *)
(***************************************************************************)
VARIABLES
    registry,    \* AdapterRegistry.adapters, in insertion order
    env,         \* process.env, fixed at startup
    store,       \* the Message table
    dbFaults,    \* database faults injected so far
    kind,        \* per request: "none", "post" (POST /webhook/:provider), "classify",
                 \* "resolve" (findAdapterForPayload), "verify" (GET /webhook/meta)
                 \* or "error" (an error handed to the error handler)
    pc,          \* per request: the await it is suspended at
    normalized,  \* per request: normalizedData of execute (set of at most one)
    messageId,   \* per request: the message id it works on (0: none yet)
    content,     \* per request: the text handed to the classifier
    classification, \* per request: the classifier's result (set of at most one)
    ret,         \* per request: outcome of the use case's execute, or of the
                 \* registry call
    failure,     \* per request: error the route handed to next(error) (at most one)
    resp,        \* per request: HTTP response sent (status 0: none)
    calls,       \* per request: collaborator calls made, in order
    doneBefore   \* per request: the requests that had finished when it began

vars == <<registry, env, store, dbFaults, kind, pc, normalized, messageId, content,
          classification, ret, failure, resp, calls, doneBefore>>

Reqs == 1..MaxReq

Pending == [t |-> "pending"]
Returned(v) == [t |-> "return", value |-> v]
Thrown(e) == [t |-> "throw", error |-> e]
NoResponse == [status |-> 0]

Done(r) == pc[r] = "done"

\* the database may fail while the fault budget lasts
FaultChoices == IF dbFaults < MaxDbFaults THEN {FALSE, TRUE} ELSE {FALSE}

InitRequests ==
    /\ store = << >>
    /\ dbFaults = 0
    /\ kind = [r \in Reqs |-> "none"]
    /\ pc = [r \in Reqs |-> "idle"]
    /\ normalized = [r \in Reqs |-> {}]
    /\ messageId = [r \in Reqs |-> 0]
    /\ content = [r \in Reqs |-> ""]
    /\ classification = [r \in Reqs |-> {}]
    /\ ret = [r \in Reqs |-> Pending]
    /\ failure = [r \in Reqs |-> {}]
    /\ resp = [r \in Reqs |-> NoResponse]
    /\ calls = [r \in Reqs |-> << >>]
    /\ doneBefore = [r \in Reqs |-> {}]

\* bootstrap: new AdapterRegistry(), then initializeAdapters(); the webhook and
\* classification paths do not read the environment
Init == registry = InitializeAdapters(<< >>) /\ env = DefaultEnv /\ InitRequests

\* requests are taken in index order
CanBegin(r) == pc[r] = "idle" /\ (IF r = 1 THEN TRUE ELSE pc[r - 1] # "idle")

Begin(r, k) ==
    /\ kind' = [kind EXCEPT ![r] = k]
    /\ doneBefore' = [doneBefore EXCEPT ![r] = {q \in Reqs : Done(q)}]

(***************************************************************************)
(* ProcessWebhookUseCase.execute up to its first await: getAdapter,        *)
(* validate, normalize.  No try/catch surrounds them: what they throw      *)
(* leaves execute as it is.                                                *)
(***************************************************************************)
\* the synchronous part of execute normalizing before it validates
ExecutePrefixNormalizeFirst(adapters, provider, payload) ==
    LET adapter == GetAdapter(adapters, provider) IN
    IF ~adapter.ok
    THEN [result |-> adapter, calls |-> << "getAdapter" >>]
    ELSE
    LET normalizedData == Normalize(adapter.value, payload)
        validated == Validate(adapter.value, payload)
    IN  IF ~validated.ok
        THEN [result |-> validated, calls |-> << "getAdapter", "normalize", "validate" >>]
        ELSE [result |-> normalizedData,
              calls |-> << "getAdapter", "normalize", "validate" >>]

ExecutePrefix(adapters, provider, payload) ==
    LET adapter == GetAdapter(adapters, provider) IN
    IF ~adapter.ok
    THEN [result |-> adapter, calls |-> << "getAdapter" >>]
    ELSE
    LET validated == Validate(adapter.value, payload) IN
    IF ~validated.ok
    THEN [result |-> validated, calls |-> << "getAdapter", "validate" >>]
    ELSE [result |-> Normalize(adapter.value, validated.value),
          calls |-> << "getAdapter", "validate", "normalize" >>]

\* the route's catch: next(error), answered by the error handler
RouteFails(r, error) ==
    /\ failure' = [failure EXCEPT ![r] = {error}]
    /\ resp' = [resp EXCEPT ![r] = ErrorHandler(error)]
    /\ pc' = [pc EXCEPT ![r] = "done"]

\* the route without its duplicate check
RouteResultAlwaysClassify(r, result) ==
    /\ content' = [content EXCEPT ![r] = result.message.message.content]
    /\ pc' = [pc EXCEPT ![r] = "classifyContent"]
    /\ UNCHANGED resp

\* the route after execute returned: a duplicate is answered at once, a new
\* message goes on to classification
RouteResult(r, result) ==
    IF result.isDuplicate
    THEN /\ resp' = [resp EXCEPT ![r] =
                        [status |-> 200,
                         body |-> [success |-> TRUE, messageId |-> result.message.id,
                                   duplicate |-> TRUE]]]
         /\ pc' = [pc EXCEPT ![r] = "done"]
         /\ UNCHANGED content
    ELSE /\ content' = [content EXCEPT ![r] = result.message.message.content]
         /\ pc' = [pc EXCEPT ![r] = "classifyContent"]
         /\ UNCHANGED resp

\* POST /webhook/:provider arrives: provider check, then execute's synchronous part
PostWebhook(r, provider, payload) ==
    /\ CanBegin(r)
    /\ Begin(r, "post")
    /\ IF ~IsValidProvider(provider)
       THEN /\ RouteFails(r, UnknownProviderError(provider))
            /\ UNCHANGED <<normalized, ret, calls>>
       ELSE LET prefix == ExecutePrefix(registry, provider, payload) IN
            /\ calls' = [calls EXCEPT ![r] = prefix.calls]
            /\ IF prefix.result.ok
               THEN /\ normalized' = [normalized EXCEPT ![r] = {prefix.result.value}]
                    /\ pc' = [pc EXCEPT ![r] = "findByExternalId"]
                    /\ UNCHANGED <<ret, failure, resp>>
               ELSE /\ ret' = [ret EXCEPT ![r] = Thrown(prefix.result.error)]
                    /\ RouteFails(r, prefix.result.error)
                    /\ UNCHANGED normalized
    /\ UNCHANGED <<registry, env, store, dbFaults, messageId, content, classification>>

\* a lookup that refreshes the stored row from the payload when it finds one
ExecuteFindByExternalIdUpsert(r) ==
    /\ kind[r] = "post" /\ pc[r] = "findByExternalId"
    /\ \E fault \in FaultChoices :
         LET data == CHOOSE n \in normalized[r] : TRUE
             existing == RepoFindByExternalId(store, data.provider, data.externalId)
         IN  /\ dbFaults' = IF fault THEN dbFaults + 1 ELSE dbFaults
             /\ calls' = [calls EXCEPT ![r] = Append(@, "findByExternalId")]
             /\ IF fault
                THEN /\ ret' = [ret EXCEPT ![r] = Thrown(PrismaUnavailable)]
                     /\ RouteFails(r, PrismaUnavailable)
                     /\ UNCHANGED <<messageId, content, store>>
                ELSE IF existing # {}
                THEN LET found == CHOOSE m \in existing : TRUE
                         row == [store[found.id] EXCEPT
                                    !.contactPhone = data.contact.phone,
                                    !.contactName = data.contact.name,
                                    !.messageContent = data.message.content,
                                    !.timestamp = data.timestamp,
                                    !.isFromMe = data.isFromMe]
                         result == [message |-> MapToEntity(row), isDuplicate |-> TRUE]
                     IN  /\ store' = [store EXCEPT ![found.id] = row]
                         /\ ret' = [ret EXCEPT ![r] = Returned(result)]
                         /\ messageId' = [messageId EXCEPT ![r] = result.message.id]
                         /\ RouteResult(r, result)
                         /\ UNCHANGED failure
                ELSE /\ pc' = [pc EXCEPT ![r] = "save"]
                     /\ UNCHANGED <<ret, failure, resp, messageId, content, store>>
    /\ UNCHANGED <<registry, env, kind, normalized, classification, doneBefore>>

\* execute: await messageRepository.findByExternalId(provider, externalId)
ExecuteFindByExternalId(r) ==
    /\ kind[r] = "post" /\ pc[r] = "findByExternalId"
    /\ \E fault \in FaultChoices :
         LET data == CHOOSE n \in normalized[r] : TRUE
             existing == RepoFindByExternalId(store, data.provider, data.externalId)
         IN  /\ dbFaults' = IF fault THEN dbFaults + 1 ELSE dbFaults
             /\ calls' = [calls EXCEPT ![r] = Append(@, "findByExternalId")]
             /\ IF fault
                THEN /\ ret' = [ret EXCEPT ![r] = Thrown(PrismaUnavailable)]
                     /\ RouteFails(r, PrismaUnavailable)
                     /\ UNCHANGED <<messageId, content>>
                ELSE IF existing # {}
                THEN LET result == [message |-> CHOOSE m \in existing : TRUE,
                                    isDuplicate |-> TRUE]
                     IN  /\ ret' = [ret EXCEPT ![r] = Returned(result)]
                         /\ messageId' = [messageId EXCEPT ![r] = result.message.id]
                         /\ RouteResult(r, result)
                         /\ UNCHANGED failure
                ELSE /\ pc' = [pc EXCEPT ![r] = "save"]
                     /\ UNCHANGED <<ret, failure, resp, messageId, content>>
    /\ UNCHANGED <<registry, env, store, kind, normalized, classification, doneBefore>>

\* execute: await messageRepository.save(normalizedData), inside try/catch
ExecuteSave(r) ==
    /\ kind[r] = "post" /\ pc[r] = "save"
    /\ \E fault \in FaultChoices :
         LET data == CHOOSE n \in normalized[r] : TRUE
             saved == RepoSave(store, data, fault)
         IN  /\ dbFaults' = IF fault THEN dbFaults + 1 ELSE dbFaults
             /\ calls' = [calls EXCEPT ![r] = Append(@, "save")]
             /\ store' = saved.table
             /\ IF saved.result.ok
                THEN LET result == [message |-> saved.result.value,
                                    isDuplicate |-> FALSE]
                     IN  /\ ret' = [ret EXCEPT ![r] = Returned(result)]
                         /\ messageId' = [messageId EXCEPT ![r] = result.message.id]
                         /\ RouteResult(r, result)
                         /\ UNCHANGED failure
                ELSE LET error == ProcessingError("save_message", saved.result.error) IN
                     /\ ret' = [ret EXCEPT ![r] = Thrown(error)]
                     /\ RouteFails(r, error)
                     /\ UNCHANGED <<messageId, content>>
    /\ UNCHANGED <<registry, env, kind, normalized, classification, doneBefore>>

\* route: await classifyMessageUseCase.classifyContent(result.message.message.content)
RouteClassifyContent(r) ==
    /\ kind[r] = "post" /\ pc[r] = "classifyContent"
    /\ \E llm \in LlmResponses :
         LET classified == ClassifyContent(llm) IN
         /\ calls' = [calls EXCEPT ![r] = Append(@, "classify")]
         /\ IF classified.ok
            THEN /\ classification' = [classification EXCEPT ![r] = {classified.value}]
                 /\ pc' = [pc EXCEPT ![r] = "updateClassification"]
                 /\ UNCHANGED <<failure, resp>>
            ELSE /\ RouteFails(r, classified.error)
                 /\ UNCHANGED classification
    /\ UNCHANGED <<registry, env, store, dbFaults, kind, normalized, messageId, content,
                   ret, doneBefore>>

\* route: await messageRepository.updateClassification(id, classification); respond
RouteUpdateClassification(r) ==
    /\ kind[r] = "post" /\ pc[r] = "updateClassification"
    /\ \E fault \in FaultChoices :
         LET c == CHOOSE x \in classification[r] : TRUE
             updated == RepoUpdateClassification(store, messageId[r], c, fault)
         IN  /\ dbFaults' = IF fault THEN dbFaults + 1 ELSE dbFaults
             /\ calls' = [calls EXCEPT ![r] = Append(@, "updateClassification")]
             /\ store' = updated.table
             /\ IF updated.result.ok
                THEN /\ resp' = [resp EXCEPT ![r] =
                                   [status |-> 200,
                                    body |-> [success |-> TRUE,
                                              messageId |-> messageId[r],
                                              provider |-> ret[r].value.message.provider,
                                              intent |-> c.intent,
                                              confidence |-> c.confidence]]]
                     /\ pc' = [pc EXCEPT ![r] = "done"]
                     /\ UNCHANGED failure
                ELSE RouteFails(r, updated.result.error)
    /\ UNCHANGED <<registry, env, kind, normalized, messageId, content, classification,
                   ret, doneBefore>>

(***************************************************************************)
(* ClassifyMessageUseCase.execute, one action per await.                   *)
(***************************************************************************)
ClassifyFinish(r, outcome) ==
    /\ ret' = [ret EXCEPT ![r] = outcome]
    /\ pc' = [pc EXCEPT ![r] = "done"]

\* execute({ messageId }) is called
ClassifyMessage(r, id) ==
    /\ CanBegin(r)
    /\ Begin(r, "classify")
    /\ messageId' = [messageId EXCEPT ![r] = id]
    /\ pc' = [pc EXCEPT ![r] = "findById"]
    /\ UNCHANGED <<registry, env, store, dbFaults, normalized, content, classification,
                   ret, failure, resp, calls>>

\* await messageRepository.findById(messageId), then the two early exits
ClassifyFindById(r) ==
    /\ kind[r] = "classify" /\ pc[r] = "findById"
    /\ \E fault \in FaultChoices :
         LET found == RepoFindById(store, messageId[r]) IN
         /\ dbFaults' = IF fault THEN dbFaults + 1 ELSE dbFaults
         /\ calls' = [calls EXCEPT ![r] = Append(@, "findById")]
         /\ IF fault
            THEN /\ ClassifyFinish(r, Thrown(PrismaUnavailable))
                 /\ UNCHANGED content
            ELSE IF found = {}
            THEN /\ ClassifyFinish(r, Thrown(ProcessingError("find_message",
                                        PlainError("Mensagem nao encontrada"))))
                 /\ UNCHANGED content
            ELSE LET message == CHOOSE m \in found : TRUE IN
                 IF message.classification # {}
                 THEN /\ ClassifyFinish(r, Returned(
                            [message |-> message,
                             classification |->
                                 CHOOSE c \in message.classification : TRUE]))
                      /\ UNCHANGED content
                 ELSE /\ content' = [content EXCEPT ![r] = message.message.content]
                      /\ pc' = [pc EXCEPT ![r] = "classify"]
                      /\ UNCHANGED ret
    /\ UNCHANGED <<registry, env, store, kind, normalized, messageId, classification,
                   failure, resp, doneBefore>>

\* await classificationService.classify(message.message.content), inside try/catch
ClassifyCallService(r) ==
    /\ kind[r] = "classify" /\ pc[r] = "classify"
    /\ \E llm \in LlmResponses :
         LET classified == Classify(llm) IN
         /\ calls' = [calls EXCEPT ![r] = Append(@, "classify")]
         /\ IF classified.ok
            THEN /\ classification' = [classification EXCEPT ![r] = {classified.value}]
                 /\ pc' = [pc EXCEPT ![r] = "updateClassification"]
                 /\ UNCHANGED ret
            ELSE /\ ClassifyFinish(r, Thrown(ProcessingError("classify_message",
                                                             classified.error)))
                 /\ UNCHANGED classification
    /\ UNCHANGED <<registry, env, store, dbFaults, kind, normalized, messageId, content,
                   failure, resp, doneBefore>>

\* await messageRepository.updateClassification(messageId, classification), in try/catch
ClassifyUpdate(r) ==
    /\ kind[r] = "classify" /\ pc[r] = "updateClassification"
    /\ \E fault \in FaultChoices :
         LET c == CHOOSE x \in classification[r] : TRUE
             updated == RepoUpdateClassification(store, messageId[r], c, fault)
         IN  /\ dbFaults' = IF fault THEN dbFaults + 1 ELSE dbFaults
             /\ calls' = [calls EXCEPT ![r] = Append(@, "updateClassification")]
             /\ store' = updated.table
             /\ IF updated.result.ok
                THEN ClassifyFinish(r, Returned([message |-> updated.result.value,
                                                 classification |-> c]))
                ELSE ClassifyFinish(r, Thrown(ProcessingError("update_classification",
                                                              updated.result.error)))
    /\ UNCHANGED <<registry, env, kind, normalized, messageId, content, classification,
                   failure, resp, doneBefore>>

\* adapterRegistry.register(adapter)
Register(adapter) ==
    /\ registry' = RegistryRegister(registry, adapter)
    /\ UNCHANGED <<env, store, dbFaults, kind, pc, normalized, messageId, content,
                   classification, ret, failure, resp, calls, doneBefore>>

\* adapterRegistry.findAdapterForPayload(payload)
Resolve(r, payload) ==
    /\ CanBegin(r)
    /\ Begin(r, "resolve")
    /\ ret' = [ret EXCEPT ![r] =
                  Returned([payload |-> payload,
                            adapter |-> FindAdapterForPayload(registry, payload)])]
    /\ pc' = [pc EXCEPT ![r] = "done"]
    /\ UNCHANGED <<registry, env, store, dbFaults, normalized, messageId, content,
                   classification, failure, resp, calls>>

\* the response of GET /webhook/meta
VerifyResponse(secret, mode, token, challenge) ==
    IF mode = {"subscribe"} /\ token = secret
    THEN [status |-> 200, body |-> challenge]
    ELSE [status |-> 403, body |-> {"Forbidden"}]

\* GET /webhook/meta?hub.mode=..&hub.verify_token=..&hub.challenge=..
VerifyMeta(r, mode, token, challenge) ==
    /\ CanBegin(r)
    /\ Begin(r, "verify")
    /\ resp' = [resp EXCEPT ![r] =
                   VerifyResponse(env.META_VERIFY_TOKEN, mode, token, challenge)]
    /\ pc' = [pc EXCEPT ![r] = "done"]
    /\ UNCHANGED <<registry, env, store, dbFaults, normalized, messageId, content,
                   classification, ret, failure, calls>>

\* next(err) with an error of any kind: the error handler answers
HandleError(r, err) ==
    /\ CanBegin(r)
    /\ Begin(r, "error")
    /\ RouteFails(r, err)
    /\ UNCHANGED <<registry, env, store, dbFaults, normalized, messageId, content,
                   classification, ret, calls>>

(***************************************************************************)
(* Specifications.                                                         *)
(***************************************************************************)
\* the steps of a POST request whose body is one of payloads
PostStepOver(r, payloads) ==
    \/ \E provider \in ProviderTokens, payload \in payloads :
          PostWebhook(r, provider, payload)
    \/ ExecuteFindByExternalId(r)
    \/ ExecuteSave(r)
    \/ RouteClassifyContent(r)
    \/ RouteUpdateClassification(r)

PostStep(r) == PostStepOver(r, Payloads)

ClassifyStep(r) ==
    \/ \E id \in 1..(Len(store) + 1) : ClassifyMessage(r, id)
    \/ ClassifyFindById(r)
    \/ ClassifyCallService(r)
    \/ ClassifyUpdate(r)

RequestStep(r) == PostStep(r) \/ ClassifyStep(r)

Next == \E r \in Reqs : RequestStep(r)

\* the service after bootstrap, serving up to MaxReq concurrent requests
Spec == Init /\ [][Next]_vars

\* a fresh registry, populated while webhooks already arrive
InitRegistry == registry = << >> /\ env = DefaultEnv /\ InitRequests

NextRegistry ==
    \/ \E adapter \in Adapters : Register(adapter)
    \/ \E r \in 1..MaxRegistryReq : PostStepOver(r, AllPayloads)

SpecRegistry == InitRegistry /\ [][NextRegistry]_vars

\* the registry and the HTTP boundary on their own: a fresh registry, any
\* environment
InitBoundary == registry = << >> /\ env \in Envs /\ InitRequests

BoundaryStep(r) ==
    \/ \E payload \in ResolvePayloads : Resolve(r, payload)
    \/ \E mode \in HubModes, token \in HubTokens, challenge \in HubChallenges :
          VerifyMeta(r, mode, token, challenge)
    \/ \E err \in HandledErrors : HandleError(r, err)

NextBoundary ==
    \/ \E adapter \in Adapters : Register(adapter)
    \/ \E r \in 1..MaxBoundaryReq : BoundaryStep(r)

SpecBoundary == InitBoundary /\ [][NextBoundary]_vars

(***************************************************************************)
(* Vocabulary of the properties.                                           *)
(***************************************************************************)
Includes(seq, x) == \E i \in 1..Len(seq) : seq[i] = x

Count(seq, x) == Cardinality({i \in 1..Len(seq) : seq[i] = x})

Posts == {r \in Reqs : kind[r] = "post"}

Classifies == {r \in Reqs : kind[r] = "classify"}

\* the idempotency key of a POST request that passed validate and normalize
HasKey(r) == kind[r] = "post" /\ normalized[r] # {}

KeyOf(r) == LET data == CHOOSE n \in normalized[r] : TRUE
            IN  <<data.provider, data.externalId>>

RowsWithKey(key) ==
    {i \in 1..Len(store) : <<store[i].provider, store[i].externalId>> = key}

RECURSIVE RootCause(_)
\* the innermost originalError of an error
RootCause(e) == IF "originalError" \in DOMAIN e THEN RootCause(e.originalError) ELSE e

\* execute returned a freshly persisted message
ReturnedNew(r) == ret[r].t = "return" /\ ~ret[r].value.isDuplicate

\* execute returned an already persisted message
ReturnedDuplicate(r) == ret[r].t = "return" /\ ret[r].value.isDuplicate

(***************************************************************************)
(* C1  Idempotency of ProcessWebhookUseCase.execute.  When a call that     *)
(* returned isDuplicate=false had finished before a second call with the   *)
(* same (provider, externalId) began, the store holds exactly one row for  *)
(* the key, the second call never saves, and when it returns it returns    *)
(* isDuplicate=true with the message id of the first call (it can only     *)
(* fail on a failing lookup).  A call that is the first of its key to run  *)
(* returns isDuplicate=false.                                              *)
(***************************************************************************)
Idempotency ==
    /\ \A r1 \in Posts, r2 \in Posts :
         (/\ r1 \in doneBefore[r2]
          /\ ReturnedNew(r1)
          /\ HasKey(r2)
          /\ KeyOf(r2) = KeyOf(r1))
         => /\ Cardinality(RowsWithKey(KeyOf(r1))) = 1
            /\ ~Includes(calls[r2], "save")
            /\ pc[r2] \in {"findByExternalId", "done"}
            /\ ret[r2].t = "return"
                  => /\ ret[r2].value.isDuplicate
                     /\ ret[r2].value.message.id = ret[r1].value.message.id
            /\ ret[r2].t = "throw" => ret[r2].error = PrismaUnavailable
    /\ \A r \in Posts :
         (/\ ret[r].t = "return"
          /\ \A q \in Posts \ {r} :
                (HasKey(q) /\ KeyOf(q) = KeyOf(r)) => r \in doneBefore[q])
         => ~ret[r].value.isDuplicate

\* a second call, begun after the first returned a new message, returned the duplicate
IdempotencyWitness ==
    \E r1 \in Posts, r2 \in Posts :
        /\ r1 \in doneBefore[r2]
        /\ ReturnedNew(r1)
        /\ HasKey(r2)
        /\ KeyOf(r2) = KeyOf(r1)
        /\ ReturnedDuplicate(r2)
        /\ ret[r2].value.message.id = ret[r1].value.message.id

(***************************************************************************)
(* C2  In every reachable state no two rows of the Message table share     *)
(* the same (provider, externalId), however the requests interleave.       *)
(***************************************************************************)
UniqueKeys ==
    \A i \in 1..Len(store), j \in 1..Len(store) :
        i # j => <<store[i].provider, store[i].externalId>>
                    # <<store[j].provider, store[j].externalId>>

\* two requests passed the lookup before either saved: the second insert was
\* rejected, and the table holds rows of two keys
UniqueKeysWitness ==
    /\ Len(store) >= 2
    /\ \E r \in Posts :
          /\ ret[r].t = "throw"
          /\ RootCause(ret[r].error) = PrismaUniqueViolation

(***************************************************************************)
(* C3  A call whose insert is rejected by the unique constraint (another   *)
(* call saved the same key after this call's lookup) returns the existing  *)
(* row with isDuplicate=true and does not fail.                            *)
(***************************************************************************)
RaceLoserReturnsDuplicate ==
    \A r \in Posts :
        (/\ Includes(calls[r], "save")
         /\ Done(r)
         /\ \E i \in RowsWithKey(KeyOf(r)) : i # messageId[r]
         /\ ~(ret[r].t = "throw" /\ RootCause(ret[r].error) = PrismaUnavailable))
        => /\ ReturnedDuplicate(r)
           /\ ret[r].value.message.id \in RowsWithKey(KeyOf(r))

(***************************************************************************)
(* C4  Classify-once, sequential.  When a ClassifyMessageUseCase.execute   *)
(* call that returned a classification had finished before a second call   *)
(* for the same message id began, and no other attempt on that message     *)
(* overlapped the first call, the two calls together invoke the classifier *)
(* at most once and updateClassification at most once, the second call     *)
(* invokes neither, and when it returns it returns the classification of   *)
(* the first call.                                                         *)
(***************************************************************************)
\* no other request working on the message of c overlapped c
Alone(c) ==
    \A q \in Reqs \ {c} :
        messageId[q] = messageId[c] => (q \in doneBefore[c] \/ c \in doneBefore[q])

ClassifyOnce ==
    \A c1 \in Classifies, c2 \in Classifies :
        (/\ c1 \in doneBefore[c2]
         /\ messageId[c1] = messageId[c2]
         /\ ret[c1].t = "return"
         /\ Alone(c1))
        => /\ Count(calls[c1], "classify") + Count(calls[c2], "classify") <= 1
           /\ Count(calls[c1], "updateClassification")
                 + Count(calls[c2], "updateClassification") <= 1
           /\ ~Includes(calls[c2], "classify")
           /\ ~Includes(calls[c2], "updateClassification")
           /\ pc[c2] \in {"findById", "done"}
           /\ ret[c2].t = "return"
                 => ret[c2].value.classification = ret[c1].value.classification
           /\ ret[c2].t = "throw" => ret[c2].error = PrismaUnavailable

\* the first call classified and stored, the second returned the stored value
ClassifyOnceWitness ==
    \E c1 \in Classifies, c2 \in Classifies :
        /\ c1 \in doneBefore[c2]
        /\ messageId[c1] = messageId[c2]
        /\ ret[c1].t = "return"
        /\ Alone(c1)
        /\ Includes(calls[c1], "updateClassification")
        /\ ret[c2].t = "return"
        /\ ret[c2].value.classification = ret[c1].value.classification

(***************************************************************************)
(* C5  First classification wins: once a row's classification is set, no   *)
(* step changes it to a different value.                                   *)
(***************************************************************************)
FirstClassificationWins ==
    [][\A i \in 1..Len(store) :
          store[i].intent # {}
             => /\ store'[i].intent = store[i].intent
                /\ store'[i].intentConfidence = store[i].intentConfidence]_vars

(***************************************************************************)
(* C6  A POST whose execute returned isDuplicate=true never triggers       *)
(* classification: the request is finished, it called neither the          *)
(* classifier nor updateClassification, and it answered 200, flagged       *)
(* duplicate, with the id of the stored message of that key.               *)
(***************************************************************************)
DuplicateNeverClassifies ==
    \A r \in Posts :
        ReturnedDuplicate(r)
        => /\ Done(r)
           /\ ~Includes(calls[r], "classify")
           /\ ~Includes(calls[r], "updateClassification")
           /\ classification[r] = {}
           /\ failure[r] = {}
           /\ resp[r].status = 200
           /\ resp[r].body.success
           /\ resp[r].body.duplicate
           /\ resp[r].body.messageId \in RowsWithKey(KeyOf(r))

\* a duplicate was answered while the stored message is still unclassified
DuplicateNeverClassifiesWitness ==
    \E r \in Posts :
        /\ ReturnedDuplicate(r)
        /\ resp[r].status = 200
        /\ store[resp[r].body.messageId].intent = {}

(***************************************************************************)
(* C7  execute for a provider without a registered adapter throws          *)
(* AdapterNotFoundError for every payload, having called getAdapter only:  *)
(* no validate, no normalize, no repository call, store unchanged.         *)
(***************************************************************************)
UnregisteredProviderFails ==
    [][\A r \in Reqs, provider \in SUPPORTED_PROVIDERS, payload \in AllPayloads :
          (PostWebhook(r, provider, payload) /\ ~HasAdapter(registry, provider))
          => /\ ret'[r] = Thrown(AdapterNotFoundError(provider))
             /\ calls'[r] = << "getAdapter" >>
             /\ normalized'[r] = {}
             /\ store' = store
             /\ pc'[r] = "done"]_vars

\* the provider had no adapter while the store already held a message
UnregisteredProviderFailsWitness ==
    \E r \in Posts :
        /\ ret[r].t = "throw"
        /\ ret[r].error.name = "AdapterNotFoundError"
        /\ calls[r] = << "getAdapter" >>
        /\ \E q \in doneBefore[r] : messageId[q] > 0

(***************************************************************************)
(* C8  When adapter.validate rejects the payload, execute throws           *)
(* WebhookValidationError with one (path, message) detail per invalid      *)
(* field (for the Z-API sample without messageId and with an empty text:   *)
(* exactly messageId and text.message), having called getAdapter and       *)
(* validate only; the repository is not called and the store is unchanged. *)
(***************************************************************************)
DetailPaths(details) == {details[i].path : i \in 1..Len(details)}

ValidationRejected ==
    [][\A r \in Reqs, provider \in SUPPORTED_PROVIDERS, payload \in Payloads :
          (/\ PostWebhook(r, provider, payload)
           /\ HasAdapter(registry, provider)
           /\ ~Validate(GetAdapter(registry, provider).value, payload).ok)
          => /\ ret'[r].t = "throw"
             /\ ret'[r].error.name = "WebhookValidationError"
             /\ LET details == GetDetails(ret'[r].error)
                    issues == Validate(GetAdapter(registry, provider).value,
                                       payload).error.issues
                IN  /\ Len(details) = Len(issues)
                    /\ Len(details) >= 1
                    /\ Cardinality(DetailPaths(details)) = Len(details)
                    /\ \A i \in 1..Len(details) : details[i].message # ""
                    /\ (provider = "zapi" /\ payload = ZApiInvalid)
                          => DetailPaths(details) = {"messageId", "text.message"}
                    /\ resp'[r].body.details = details
             /\ calls'[r] = << "getAdapter", "validate" >>
             /\ normalized'[r] = {}
             /\ store' = store
             /\ pc'[r] = "done"]_vars

\* a payload with two invalid fields was rejected while the store held a message
ValidationRejectedWitness ==
    \E r \in Posts :
        /\ ret[r].t = "throw"
        /\ ret[r].error.name = "WebhookValidationError"
        /\ DetailPaths(GetDetails(ret[r].error)) = {"messageId", "text.message"}
        /\ \E q \in doneBefore[r] : messageId[q] > 0

(***************************************************************************)
(* C9  When persisting a new message fails, execute throws a               *)
(* ProcessingError with step "save_message" whose originalError is the     *)
(* store's own error, not another wrapper, and no row is added.            *)
(***************************************************************************)
SaveFailureCarriesStoreError ==
    \A r \in Posts :
        (ret[r].t = "throw" /\ Includes(calls[r], "save"))
        => /\ ret[r].error.name = "ProcessingError"
           /\ ret[r].error.step = "save_message"
           /\ ~IsWebhookError(ret[r].error.originalError)
           /\ messageId[r] = 0

(***************************************************************************)
(* C10  When adapter.normalize throws on a validated payload, execute      *)
(* throws a ProcessingError and nothing is persisted.                      *)
(***************************************************************************)
NormalizeFailureIsProcessingError ==
    \A r \in Posts :
        (Done(r) /\ calls[r] = << "getAdapter", "validate", "normalize" >>)
        => /\ ret[r].t = "throw"
           /\ ret[r].error.name = "ProcessingError"
           /\ messageId[r] = 0

(***************************************************************************)
(* C11  Every failure of a repository or classifier call made during       *)
(* orchestration reaches the caller as a ProcessingError that carries a    *)
(* step name and the wrapped cause: a failing findByExternalId in          *)
(* ProcessWebhookUseCase.execute and a failing findById in                 *)
(* ClassifyMessageUseCase.execute included.                                *)
(***************************************************************************)
OrchestrationCalls ==
    {"findByExternalId", "save", "findById", "classify", "updateClassification"}

\* the request failed in, or right after, a repository or classifier call
FailedInOrchestration(r) ==
    /\ Done(r)
    /\ Len(calls[r]) > 0
    /\ calls[r][Len(calls[r])] \in OrchestrationCalls
    /\ (ret[r].t = "throw" \/ failure[r] # {})

\* the error the caller of the failing use case got
CallerError(r) ==
    IF ret[r].t = "throw" THEN ret[r].error ELSE CHOOSE e \in failure[r] : TRUE

OrchestrationFailuresTyped ==
    \A r \in Reqs :
        FailedInOrchestration(r)
        => /\ CallerError(r).name = "ProcessingError"
           /\ "step" \in DOMAIN CallerError(r)
           /\ "originalError" \in DOMAIN CallerError(r)

(***************************************************************************)
(* C12  ClassifyMessageUseCase.execute for a message id that is not in the *)
(* store (the lookup itself succeeding) throws ProcessingError with step   *)
(* "find_message": findById is its only call, neither the classifier nor   *)
(* updateClassification is invoked, and the store is unchanged.            *)
(***************************************************************************)
MissingMessageFails ==
    [][\A r \in Reqs :
          (/\ ClassifyFindById(r)
           /\ dbFaults' = dbFaults
           /\ messageId[r] \notin 1..Len(store))
          => /\ ret'[r].t = "throw"
             /\ ret'[r].error.name = "ProcessingError"
             /\ ret'[r].error.step = "find_message"
             /\ calls'[r] = << "findById" >>
             /\ classification'[r] = {}
             /\ store' = store
             /\ pc'[r] = "done"]_vars

\* an unknown id was asked for while the store held an unclassified message
MissingMessageFailsWitness ==
    \E c \in Classifies :
        /\ ret[c].t = "throw"
        /\ ret[c].error.name = "ProcessingError"
        /\ ret[c].error.step = "find_message"
        /\ calls[c] = << "findById" >>
        /\ messageId[c] \notin 1..Len(store)
        /\ \E i \in 1..Len(store) : store[i].intent = {}

(***************************************************************************)
(* C13  When the classification service fails during                       *)
(* ClassifyMessageUseCase.execute, the call throws ProcessingError with    *)
(* step "classify_message", updateClassification is not invoked and the    *)
(* store is left as it was; when the classifier succeeded and              *)
(* updateClassification fails, the call throws ProcessingError with step   *)
(* "update_classification".                                                *)
(***************************************************************************)
ClassifyFailureSteps ==
    [][\A r \in Reqs :
          /\ (ClassifyCallService(r) /\ classification'[r] = {})
             => /\ ret'[r].t = "throw"
                /\ ret'[r].error.name = "ProcessingError"
                /\ ret'[r].error.step = "classify_message"
                /\ ~Includes(calls'[r], "updateClassification")
                /\ store' = store
                /\ pc'[r] = "done"
          /\ (ClassifyUpdate(r) /\ dbFaults' # dbFaults)
             => /\ ret'[r].t = "throw"
                /\ ret'[r].error.name = "ProcessingError"
                /\ ret'[r].error.step = "update_classification"
                /\ classification[r] # {}
                /\ store' = store
                /\ pc'[r] = "done"]_vars

\* one call failed in the classifier and left the message unclassified, another
\* failed in updateClassification
ClassifyFailureStepsWitness ==
    \E c1 \in Classifies, c2 \in Classifies :
        /\ ret[c1].t = "throw"
        /\ ret[c1].error.name = "ProcessingError"
        /\ ret[c1].error.step = "classify_message"
        /\ calls[c1] = << "findById", "classify" >>
        /\ store[messageId[c1]].intent = {}
        /\ ret[c2].t = "throw"
        /\ ret[c2].error.name = "ProcessingError"
        /\ ret[c2].error.step = "update_classification"
        /\ calls[c2] = << "findById", "classify", "updateClassification" >>

(***************************************************************************)
(* C14  ClassifyMessageUseCase.classifyContent is a stateless pass-through:*)
(* it makes exactly one classifier call, hands back the classifier's       *)
(* result unchanged, neither reads nor writes the repository, and turns a  *)
(* classifier failure into ProcessingError with step "classify_content"    *)
(* around the classifier's error.                                          *)
(***************************************************************************)
ClassifyContentPassThrough ==
    [][\A r \in Reqs :
          RouteClassifyContent(r)
          => /\ calls'[r] = Append(calls[r], "classify")
             /\ store' = store
             /\ dbFaults' = dbFaults
             /\ content'[r] = content[r]
             /\ \E llm \in LlmResponses :
                   LET direct == Classify(llm) IN
                   IF direct.ok
                   THEN /\ classification'[r] = {direct.value}
                        /\ failure'[r] = {}
                   ELSE /\ classification'[r] = {}
                        /\ \E e \in failure'[r] :
                              /\ e.name = "ProcessingError"
                              /\ e.step = "classify_content"
                              /\ e.originalError = direct.error]_vars

\* one inline classification came back with a result, another failed
ClassifyContentPassThroughWitness ==
    \E r \in Posts, q \in Posts :
        /\ \E e \in failure[r] : e.name = "ProcessingError" /\ e.step = "classify_content"
        /\ calls[r][Len(calls[r])] = "classify"
        /\ classification[q] # {}
        /\ Includes(calls[q], "classify")

(***************************************************************************)
(* C15  AdapterRegistry.register inserts or replaces: after a register     *)
(* call getAdapter of the registered provider returns the adapter just     *)
(* registered, the entries of all other providers are the ones they were,  *)
(* and the registry holds at most one adapter per provider (a new key      *)
(* adds one entry, a present key none).                                    *)
(***************************************************************************)
RegisterReplaces ==
    [][\A adapter \in Adapters :
          Register(adapter)
          => /\ GetAdapter(registry', adapter.provider) = Ok(adapter)
             /\ \A p \in SUPPORTED_PROVIDERS \ {adapter.provider} :
                   GetAdapter(registry', p) = GetAdapter(registry, p)
             /\ \A i \in 1..Len(registry'), j \in 1..Len(registry') :
                   i # j => registry'[i].provider # registry'[j].provider
             /\ Len(registry') = IF HasAdapter(registry, adapter.provider)
                                 THEN Len(registry)
                                 ELSE Len(registry) + 1]_vars

\* a webhook was served by the throwing adapter, a later one for the same
\* provider by MetaAdapter registered in its place, with zapi still registered
RegisterReplacesWitness ==
    \E r1 \in Posts, r2 \in Posts :
        /\ r1 \in doneBefore[r2]
        /\ ret[r1] = Thrown(PlainError("normalize failed"))
        /\ HasKey(r2)
        /\ KeyOf(r2)[1] = "meta"
        /\ GetAdapter(registry, "meta") = Ok(MetaAdapter)
        /\ GetAdapter(registry, "zapi") = Ok(ZApiAdapter)

(***************************************************************************)
(* C16  AdapterRegistry.findAdapterForPayload returns the first adapter,   *)
(* in registration order, whose canHandle(payload) is true, and returns    *)
(* undefined exactly when no registered adapter's canHandle is true; when  *)
(* two registered adapters accept the payload the first-registered one is  *)
(* returned.                                                               *)
(***************************************************************************)
Resolves == {r \in Reqs : kind[r] = "resolve"}

FirstMatchWins ==
    [][\A r \in Reqs, payload \in ResolvePayloads :
          Resolve(r, payload)
          => LET found == ret'[r].value.adapter
                 accepting == {i \in 1..Len(registry) : CanHandle(registry[i], payload)}
             IN  /\ (found = {}) <=> (accepting = {})
                 /\ accepting # {}
                       => \E i \in accepting :
                             /\ found = {registry[i]}
                             /\ \A k \in accepting : i <= k]_vars

\* a Meta body resolved to the meta adapter, so that adapter was registered;
\* afterwards a body that both adapters accept resolved to the zapi adapter,
\* registered before it
FirstMatchWinsWitness ==
    \E q \in Resolves, r \in Resolves :
        /\ q \in doneBefore[r]
        /\ ret[q].value.payload = MetaText
        /\ ret[q].value.adapter = {MetaAdapter}
        /\ registry = << ZApiAdapter, MetaAdapter >>
        /\ ret[r].value.payload = ZApiMetaHybrid
        /\ ret[r].value.adapter = {ZApiAdapter}

(***************************************************************************)
(* C17  The GET /webhook/meta handshake echoes the challenge (200) only if *)
(* the supplied token matches a configured secret; for every other         *)
(* combination of mode, token and configured secret, no token supplied     *)
(* and no secret configured included, it answers 403 and does not echo     *)
(* the challenge.                                                          *)
(***************************************************************************)
HandshakeNeedsSecret ==
    [][\A r \in Reqs, mode \in HubModes, token \in HubTokens,
          challenge \in HubChallenges :
          VerifyMeta(r, mode, token, challenge)
          => LET matches == /\ token # {}
                            /\ env.META_VERIFY_TOKEN # {}
                            /\ token = env.META_VERIFY_TOKEN
             IN  /\ resp'[r].status = 200 => matches
                 /\ ~matches => /\ resp'[r].status = 403
                                /\ resp'[r].body # {"c1"}]_vars

(***************************************************************************)
(* C18  The error handler maps every error to exactly one outcome:         *)
(* WebhookValidationError to 400 VALIDATION_ERROR with the per-field       *)
(* details, UnknownProviderError to 400 UNKNOWN_PROVIDER,                  *)
(* AdapterNotFoundError to 501 PROVIDER_NOT_IMPLEMENTED, ProcessingError   *)
(* to 500 PROCESSING_ERROR, DuplicateMessageError to a 200 success flagged *)
(* as already processed, and any other error to 500 INTERNAL_ERROR.        *)
(***************************************************************************)
\* the outcome the error boundary is to give for an error
ExpectedOutcome(err) ==
    CASE err.name = "WebhookValidationError" ->
            [status |-> 400,
             body |-> [error |-> "VALIDATION_ERROR",
                       details |-> [i \in 1..Len(err.issues) |->
                                       [path |-> JoinPath(err.issues[i].path),
                                        message |-> err.issues[i].message]]]]
      [] err.name = "UnknownProviderError" ->
            [status |-> 400, body |-> [error |-> "UNKNOWN_PROVIDER"]]
      [] err.name = "AdapterNotFoundError" ->
            [status |-> 501, body |-> [error |-> "PROVIDER_NOT_IMPLEMENTED"]]
      [] err.name = "ProcessingError" ->
            [status |-> 500, body |-> [error |-> "PROCESSING_ERROR"]]
      [] err.name = "DuplicateMessageError" ->
            [status |-> 200, body |-> [success |-> TRUE, alreadyProcessed |-> TRUE]]
      [] OTHER -> [status |-> 500, body |-> [error |-> "INTERNAL_ERROR"]]

ErrorBoundaryMapping ==
    \A r \in Reqs :
        failure[r] # {}
        => /\ Cardinality(failure[r]) = 1
           /\ \A err \in failure[r] : resp[r] = ExpectedOutcome(err)

\* a duplicate signal was answered as a success and a non-domain error as an
\* internal error
ErrorBoundaryMappingWitness ==
    \E q \in Reqs, r \in Reqs :
        /\ kind[q] = "error" /\ kind[r] = "error"
        /\ failure[q] = {DuplicateMessageError("zapi", "m1")}
        /\ resp[q].status = 200
        /\ failure[r] = {PlainError("boom")}
        /\ resp[r].status = 500

BodyPath(provider) ==
    IF provider = "zapi" THEN "text" ELSE "entry.0.changes.0.value.messages.0.text"

\* the payload without a message body of a provider
NoBodyPayload(provider) == IF provider = "zapi" THEN ZApiNoBody ELSE MetaNoBody

MissingBodyRejected ==
    [][\A r \in Reqs, provider \in SUPPORTED_PROVIDERS :
          (/\ PostWebhook(r, provider, NoBodyPayload(provider))
           /\ HasAdapter(registry, provider)
           /\ GetAdapter(registry, provider).value \in {ZApiAdapter, MetaAdapter})
          => /\ ret'[r].t = "throw"
             /\ ret'[r].error.name = "WebhookValidationError"
             /\ BodyPath(provider) \in DetailPaths(GetDetails(ret'[r].error))
             /\ calls'[r] = << "getAdapter", "validate" >>
             /\ normalized'[r] = {}
             /\ pc'[r] = "done"]_vars

(***************************************************************************)
(* C21  Scenario A.  The Z-API adapter, given the payload {messageId "m1",  *)
(* phone "+55 (11) 98888-8888", text {message "hello"}, momment, fromMe     *)
(* false, senderName "Ana"}, passes validate and normalizes to externalId   *)
(* "m1", contact phone "5511988888888", contact name "Ana", content type    *)
(* "text" with text "hello", isFromMe false.                                *)
(***************************************************************************)
\* the canonical message of scenario A, timestamp aside
ScenarioAExpected(data) ==
    /\ data.externalId = "m1"
    /\ data.contact.phone = <<"5", "5", "1", "1", "9", "8", "8", "8", "8", "8",
                              "8", "8", "8">>
    /\ data.contact.name = "Ana"
    /\ data.message = [type |-> "text", content |-> "hello"]
    /\ data.isFromMe = FALSE

\* a POST of the payload through the Z-API adapter validates and normalizes
\* to the canonical message of scenario A
ScenarioNormalizes(payload) ==
    \A r \in Reqs :
        (/\ PostWebhook(r, "zapi", payload)
         /\ GetAdapter(registry, "zapi") = Ok(ZApiAdapter))
        => /\ Includes(calls'[r], "normalize")
           /\ normalized'[r] # {}
           /\ \A data \in normalized'[r] : ScenarioAExpected(data)

\* C21 as stated: the six-field payload is accepted and normalized
ScenarioAAsWritten == [][ScenarioNormalizes(ScenarioA)]_vars

\* C21 as the code has it: the payload completed with instanceId, status,
\* chatName and type "ReceivedCallback" is accepted and normalized to the
\* canonical message of scenario A, while the six-field payload fails
\* validate with a WebhookValidationError that lists the four missing fields
ScenarioACompleted ==
    [][/\ ScenarioNormalizes(ScenarioAComplete)
       /\ \A r \in Reqs :
            (/\ PostWebhook(r, "zapi", ScenarioA)
             /\ GetAdapter(registry, "zapi") = Ok(ZApiAdapter))
            => /\ ret'[r].t = "throw"
               /\ ret'[r].error.name = "WebhookValidationError"
               /\ DetailPaths(GetDetails(ret'[r].error))
                    = {"instanceId", "status", "chatName", "type"}
               /\ normalized'[r] = {}]_vars

\* a request normalized the completed payload of scenario A
ScenarioACompletedWitness ==
    \E r \in Posts :
        /\ Includes(calls[r], "normalize")
        /\ \E data \in normalized[r] :
              ScenarioAExpected(data) /\ data.timestamp = ValidDate(1700000)

(***************************************************************************)
(* C22  Every normalized message that ZApiAdapter or MetaAdapter produces   *)
(* from a payload that passed validate has a non-empty content, and so has  *)
(* every persisted message.                                                 *)
(***************************************************************************)
ContentNeverEmpty ==
    /\ \A r \in Posts : \A data \in normalized[r] : data.message.content # ""
    /\ \A i \in 1..Len(store) : store[i].messageContent # ""
    /\ \A r \in Posts :
          (ret[r].t = "return") => ret[r].value.message.message.content # ""

\* a Z-API image without caption was persisted with the placeholder as its
\* content, and a Meta message with an empty body was rejected by validate
ContentNeverEmptyWitness ==
    /\ \E i \in 1..Len(store) :
          store[i].provider = "zapi" /\ store[i].messageContent = "[Imagem recebida]"
    /\ \E r \in Posts :
          /\ ret[r].t = "throw"
          /\ ret[r].error.name = "WebhookValidationError"
          /\ ret[r].error.provider = "meta"
          /\ BodyPath("meta") \o ".body" \in DetailPaths(GetDetails(ret[r].error))

(***************************************************************************)
(* C23  No classification whose confidence lies outside [0, 1] is ever      *)
(* persisted, on the inline path of POST /webhook/:provider and on the      *)
(* classify-by-id path alike: the classifier's answer is rejected before    *)
(* updateClassification is called.  Confidence counts hundredths.           *)
(***************************************************************************)
ConfidenceInRange == 0..100

\* the error parseClassificationResponse raises for a confidence out of range
OutOfRangeError == PlainError("Campo confidence deve estar entre 0 e 1")

ConfidenceBound ==
    /\ \A i \in 1..Len(store) : store[i].intentConfidence \subseteq ConfidenceInRange
    /\ \A r \in Reqs :
          Includes(calls[r], "updateClassification")
          => /\ classification[r] # {}
             /\ \A c \in classification[r] : c.confidence \in ConfidenceInRange
    /\ \A r \in Reqs :
          \A c \in classification[r] : c.confidence \in ConfidenceInRange

\* the classifier answered a POST with a confidence out of range and a
\* classify-by-id call likewise; both failed before updateClassification and
\* the row of the POST is still unclassified
ConfidenceBoundWitness ==
    \E r \in Posts, c \in Classifies :
        /\ Done(r) /\ Done(c)
        /\ \E e \in failure[r] : RootCause(e) = OutOfRangeError
        /\ ret[c].t = "throw" /\ RootCause(ret[c].error) = OutOfRangeError
        /\ calls[r][Len(calls[r])] = "classify"
        /\ calls[c][Len(calls[c])] = "classify"
        /\ messageId[r] \in 1..Len(store)
        /\ store[messageId[r]].intentConfidence = {}

(***************************************************************************)
(* C24  The contact phone of a normalized message consists of decimal       *)
(* digits only: it is the provider's phone string with every non-digit      *)
(* character removed, in the same order (Z-API phone, Meta from).           *)
(***************************************************************************)
IsDigit(c) == c \in {"0", "1", "2", "3", "4", "5", "6", "7", "8", "9"}

\* the phone string of the payload as the provider sent it
ProviderPhone(provider, payload) ==
    IF provider = "zapi" THEN payload.v.phone.v
    ELSE payload.v.entry.v[1].v.changes.v[1].v.value.v.messages.v[1].v.from.v

PhoneDigitsOnly ==
    [][\A r \in Reqs, provider \in SUPPORTED_PROVIDERS, payload \in AllPayloads :
          (/\ PostWebhook(r, provider, payload)
           /\ HasAdapter(registry, provider)
           /\ GetAdapter(registry, provider).value \in {ZApiAdapter, MetaAdapter}
           /\ normalized'[r] # {})
          => \A data \in normalized'[r] :
                /\ \A i \in 1..Len(data.contact.phone) : IsDigit(data.contact.phone[i])
                /\ data.contact.phone
                     = SelectSeq(ProviderPhone(provider, payload), IsDigit)]_vars

\* a Z-API phone "+5 1" and a Meta from "55-3" were persisted as "51" and "553"
PhoneDigitsOnlyWitness ==
    \E i \in 1..Len(store), j \in 1..Len(store) :
        /\ store[i].provider = "zapi" /\ store[i].contactPhone = <<"5", "1">>
        /\ store[j].provider = "meta" /\ store[j].contactPhone = <<"5", "5", "3">>

(***************************************************************************)
(* C25  Within one call of ProcessWebhookUseCase.execute the steps run in   *)
(* this order: resolve the adapter, validate, normalize, duplicate lookup,  *)
(* save.  The save is attempted only after the lookup returned no row, and  *)
(* the lookup and the save are each called at most once per request: a      *)
(* failed save is not retried.                                              *)
(***************************************************************************)
ExecuteSteps == << "getAdapter", "validate", "normalize", "findByExternalId", "save" >>

\* the calls of a POST request start with execute's steps in their order, and
\* none of these steps is called a second time
InExecuteOrder(cs) ==
    \A k \in 1..Len(cs) :
        IF k <= Len(ExecuteSteps) /\ cs[k] \notin {"classify", "updateClassification"}
        THEN cs[k] = ExecuteSteps[k]
        ELSE /\ cs[k] \in {"classify", "updateClassification"}
             /\ Includes(cs, "save")

ExecuteStepOrder ==
    [][\A r \in Reqs :
          kind'[r] = "post"
          => /\ InExecuteOrder(calls'[r])
             /\ Count(calls'[r], "findByExternalId") <= 1
             /\ Count(calls'[r], "save") <= 1
             \* the step to save is taken when the lookup found no row
             /\ (pc[r] = "findByExternalId" /\ pc'[r] = "save")
                => /\ RepoFindByExternalId(store, KeyOf(r)[1], KeyOf(r)[2]) = {}
                   /\ calls'[r] = SubSeq(ExecuteSteps, 1, 4)
             \* save is called from that step only
             /\ Count(calls'[r], "save") > Count(calls[r], "save")
                => pc[r] = "save" /\ calls[r] = SubSeq(ExecuteSteps, 1, 4)
             \* a failed save ends the request
             /\ (pc[r] = "save" /\ ret'[r].t = "throw")
                => pc'[r] = "done" /\ calls'[r] = ExecuteSteps]_vars

\* a request ran the five steps, its save failed and it ended there
ExecuteStepOrderWitness ==
    \E r \in Posts :
        /\ Done(r)
        /\ calls[r] = ExecuteSteps
        /\ ret[r].t = "throw"
        /\ ret[r].error.name = "ProcessingError"
        /\ ret[r].error.step = "save_message"

(***************************************************************************)
(* C26  On POST /webhook/:provider for a new message the order is: persist  *)
(* the message, classify its content, persist the classification, respond.  *)
(* The success response is sent only after updateClassification succeeded,  *)
(* and its intent and confidence equal the classification this request      *)
(* wrote to the row of the message.                                         *)
(***************************************************************************)
PostSteps == ExecuteSteps \o << "classify", "updateClassification" >>

\* the request is answered 200 for a message it persisted itself
AnswersNewMessage(r) ==
    /\ kind[r] = "post"
    /\ resp[r] = NoResponse
    /\ resp'[r].status = 200
    /\ ret'[r].t = "return"
    /\ ~ret'[r].value.isDuplicate

PostRespondsAfterPersist ==
    [][\A r \in Reqs :
          /\ AnswersNewMessage(r)
             => /\ pc[r] = "updateClassification"
                /\ calls'[r] = PostSteps
                /\ calls[r] = SubSeq(PostSteps, 1, 6)
                /\ resp'[r].body.messageId = ret[r].value.message.id
                /\ resp'[r].body.messageId \in 1..Len(store')
                /\ LET row == store'[resp'[r].body.messageId] IN
                   /\ <<row.provider, row.externalId>> = KeyOf(r)
                   /\ row.intent = {resp'[r].body.intent}
                   /\ row.intentConfidence = {resp'[r].body.confidence}
                   /\ classification[r]
                        = {[intent |-> resp'[r].body.intent,
                            confidence |-> resp'[r].body.confidence]}
          \* classification starts only from a message this request persisted
          /\ (kind[r] = "post" /\ Includes(calls'[r], "classify"))
             => /\ SubSeq(calls'[r], 1, 6) = SubSeq(PostSteps, 1, 6)
                /\ ret'[r].t = "return"
                /\ ~ret'[r].value.isDuplicate
                /\ RowsWithKey(KeyOf(r)) # {}]_vars

\* a request persisted a new message, the classifier's unknown intent was
\* coerced to "outro", the row was updated and the response carries the same
\* classification
PostRespondsAfterPersistWitness ==
    \E r \in Posts :
        /\ Done(r)
        /\ calls[r] = PostSteps
        /\ resp[r].status = 200
        /\ resp[r].body = [success |-> TRUE, messageId |-> messageId[r],
                           provider |-> KeyOf(r)[1], intent |-> "outro",
                           confidence |-> 60]
        /\ store[messageId[r]].intent = {"outro"}
        /\ store[messageId[r]].intentConfidence = {60}

(***************************************************************************)
(* C27  ZApiAdapter.normalize picks the message content in a fixed fallback *)
(* order: the text message when present and non-empty, otherwise the image  *)
(* caption when present and non-empty, otherwise a fixed placeholder        *)
(* string; an empty or absent caption never becomes the content.            *)
(***************************************************************************)
\* the text message of a payload, empty when it has none
TextOf(payload) ==
    IF "text" \in DOMAIN payload.v /\ "message" \in DOMAIN payload.v.text.v
    THEN payload.v.text.v.message.v ELSE ""

\* the image caption of a payload, empty when it has none
CaptionOf(payload) ==
    IF "image" \in DOMAIN payload.v /\ "caption" \in DOMAIN payload.v.image.v
    THEN payload.v.image.v.caption.v ELSE ""

\* the placeholders of extractContent: one for an image, one for anything else
PlaceholderOf(payload) ==
    IF "image" \in DOMAIN payload.v THEN "[Imagem recebida]" ELSE "[Midia recebida]"

ContentFallbackOrder ==
    [][\A r \in Reqs, payload \in AllPayloads :
          (/\ PostWebhook(r, "zapi", payload)
           /\ GetAdapter(registry, "zapi") = Ok(ZApiAdapter)
           /\ normalized'[r] # {})
          => \A data \in normalized'[r] :
                /\ data.message.type = "text"
                /\ data.message.content # ""
                /\ data.message.content =
                      IF TextOf(payload) # "" THEN TextOf(payload)
                      ELSE IF CaptionOf(payload) # "" THEN CaptionOf(payload)
                      ELSE PlaceholderOf(payload)]_vars

\* one request normalized an image with a caption to the caption, another an
\* image without a usable caption to the placeholder
ContentFallbackOrderWitness ==
    \E q \in Posts, r \in Posts :
        /\ \E data \in normalized[q] :
              data.provider = "zapi" /\ data.message.content = "foto"
        /\ \E data \in normalized[r] :
              data.provider = "zapi" /\ data.message.content = "[Imagem recebida]"

(***************************************************************************)
(* C28  If the inline classification or the classification update fails     *)
(* after a new message was saved by POST /webhook/:provider, the row stays  *)
(* persisted without a classification; every later redelivery of the same   *)
(* message returns the duplicate response without classifying, so on the    *)
(* webhook path alone the message never becomes classified.                 *)
(***************************************************************************)
\* a POST saved a new message and then failed in classifyContent or in
\* updateClassification
SavedUnclassified(r) ==
    /\ kind[r] = "post"
    /\ Done(r)
    /\ ret[r].t = "return" /\ ~ret[r].value.isDuplicate
    /\ failure[r] # {}

\* no classify-by-id call touched the row
WebhookPathOnly(id) ==
    \A c \in Classifies : messageId[c] = id => ~Includes(calls[c], "updateClassification")

StaysUnclassified ==
    \A r \in Reqs :
        SavedUnclassified(r)
        => /\ messageId[r] \in 1..Len(store)
           /\ <<store[messageId[r]].provider, store[messageId[r]].externalId>> = KeyOf(r)
           /\ WebhookPathOnly(messageId[r])
              => /\ store[messageId[r]].intent = {}
                 /\ store[messageId[r]].intentConfidence = {}
           /\ \A q \in Posts :
                 (r \in doneBefore[q] /\ HasKey(q) /\ KeyOf(q) = KeyOf(r))
                 => /\ ~Includes(calls[q], "save")
                    /\ ~Includes(calls[q], "classify")
                    /\ ~Includes(calls[q], "updateClassification")
                    /\ ret[q].t = "return"
                       => /\ ret[q].value.isDuplicate
                          /\ ret[q].value.message.id = messageId[r]
                          /\ resp[q] = [status |-> 200,
                                        body |-> [success |-> TRUE,
                                                  messageId |-> messageId[r],
                                                  duplicate |-> TRUE]]

\* the classification update of a new message failed, two later redeliveries
\* were answered as duplicates, and the row is still unclassified
StaysUnclassifiedWitness ==
    \E r \in Posts, q1 \in Posts, q2 \in Posts :
        /\ q1 # q2
        /\ SavedUnclassified(r)
        /\ calls[r] = PostSteps
        /\ r \in doneBefore[q1] /\ r \in doneBefore[q2]
        /\ ReturnedDuplicate(q1) /\ ReturnedDuplicate(q2)
        /\ ret[q1].value.message.id = messageId[r]
        /\ ret[q2].value.message.id = messageId[r]
        /\ store[messageId[r]].intent = {}

(***************************************************************************)
(* C29  The duplicate path of ProcessWebhookUseCase.execute is read-only:   *)
(* when the lookup finds a row for (provider, externalId), execute leaves   *)
(* every row unchanged and returns the stored row, also when the contact,   *)
(* content, timestamp or isFromMe of the new payload differ from it.        *)
(***************************************************************************)
\* the stored row as execute returns it
StoredMessage(i) ==
    [id |-> i,
     externalId |-> store[i].externalId,
     provider |-> store[i].provider,
     contact |-> [phone |-> store[i].contactPhone, name |-> store[i].contactName],
     message |-> [type |-> store[i].messageType, content |-> store[i].messageContent],
     timestamp |-> store[i].timestamp,
     receivedAt |-> store[i].receivedAt,
     isFromMe |-> store[i].isFromMe]

\* the fields of a message that the payload determines
PayloadFields(m) == <<m.contact, m.message, m.timestamp, m.isFromMe>>

DuplicatePathReadOnly ==
    [][\A r \in Reqs :
          (/\ kind[r] = "post"
           /\ pc[r] = "findByExternalId"
           /\ pc'[r] # pc[r])
          => /\ store' = store
             /\ (ret'[r].t = "return")
                => /\ ret'[r].value.isDuplicate
                   /\ calls'[r] = SubSeq(ExecuteSteps, 1, 4)
                   /\ pc'[r] = "done"
                   /\ \E i \in RowsWithKey(KeyOf(r)) :
                         \A f \in DOMAIN StoredMessage(i) :
                             ret'[r].value.message[f] = StoredMessage(i)[f]]_vars

\* a redelivery whose contact, content, timestamp and isFromMe all differ
\* from the stored row got the stored row back, and the row is as it was saved
DuplicatePathReadOnlyWitness ==
    \E r \in Posts :
        /\ ReturnedDuplicate(r)
        /\ LET data == CHOOSE n \in normalized[r] : TRUE
               m == ret[r].value.message
           IN  /\ m.contact.phone # data.contact.phone
               /\ m.contact.name # data.contact.name
               /\ m.message.content # data.message.content
               /\ m.timestamp # data.timestamp
               /\ m.isFromMe # data.isFromMe
               /\ PayloadFields(m) = PayloadFields(StoredMessage(m.id))

(***************************************************************************)
(* C30  The idempotency key is the pair (provider, externalId), not the     *)
(* externalId alone: two valid payloads from different providers that       *)
(* carry the same externalId are both persisted, as separate rows, and      *)
(* neither is reported as a duplicate of the other.                         *)
(***************************************************************************)
\* no other request carries the key of r
OnlyOneWithKey(r) == \A q \in Posts \ {r} : HasKey(q) => KeyOf(q) # KeyOf(r)

KeyIsThePair ==
    /\ \A r \in Posts :
          ReturnedDuplicate(r)
          => <<ret[r].value.message.provider, ret[r].value.message.externalId>>
                = KeyOf(r)
    /\ \A r \in Posts :
          (HasKey(r) /\ Done(r) /\ OnlyOneWithKey(r))
          => \/ /\ ReturnedNew(r)
                /\ RowsWithKey(KeyOf(r)) = {messageId[r]}
             \/ /\ ret[r].t = "throw"
                /\ RootCause(ret[r].error) = PrismaUnavailable

\* a Z-API message and a Meta message with the same externalId were both
\* persisted as new, in two rows
KeyIsThePairWitness ==
    \E q \in Posts, r \in Posts :
        /\ ReturnedNew(q) /\ ReturnedNew(r)
        /\ KeyOf(q) = <<"zapi", "m1">>
        /\ KeyOf(r) = <<"meta", "m1">>
        /\ messageId[q] # messageId[r]
        /\ store[messageId[q]].externalId = store[messageId[r]].externalId
        /\ store[messageId[q]].provider = "zapi"
        /\ store[messageId[r]].provider = "meta"

====
